---- MODULE Spec2Model ----
(***************************************************************************)
(* Batch OCR pipeline of surya_ocr_fixed.py: the orchestrator (main), the  *)
(* per-GPU worker processes, the checkpoint file with its sidecar lock,    *)
(* the shared progress counter, and the merge engine.                      *)
(*                                                                         *)
(* Strings are sequences of one-character strings, so that the identifier  *)
(* computation (removeprefix, re.sub, replace) is computed as the code     *)
(* computes it.  An optional value (None or x) is <<>> or <<x>>.           *)
(***************************************************************************)
EXTENDS Integers, Sequences, FiniteSets, TLC

(* ------------------------------ bounds -------------------------------- *)

\* number of times the program is started on the same input and output dir
MaxRuns == 2
\* number of worker processes terminated from outside (SpecKill only)
MaxKills == 1
\* number of pages of a document given to the merge and to the confidence
\* aggregation (SpecMerge, SpecFn)
MaxPages == 3
\* number of comma-separated items of a page-range expression (SpecFn)
MaxItems == 3
\* samples the resource monitor takes in one run
MaxSamples == 2

(* --------------------------- paths and ids ---------------------------- *)

\* the character the code writes as U+21B3 in identifiers
ARROW == "^"

\* str.removeprefix
RemovePrefix(s, p) ==
    IF Len(p) <= Len(s) /\ SubSeq(s, 1, Len(p)) = p
    THEN SubSeq(s, Len(p) + 1, Len(s))
    ELSE s

\* re.sub(r'\.[^.]+$', '', s): a dot followed by one or more non-dot
\* characters up to the end of the string is removed
StripExtension(s) ==
    LET dots == {i \in 1..Len(s) : s[i] = "."}
    IN  IF dots = {} THEN s
        ELSE LET last == CHOOSE i \in dots : \A j \in dots : j <= i
             IN  IF last < Len(s) THEN SubSeq(s, 1, last - 1) ELSE s

\* str.replace("/", ARROW)
ReplaceSeparators(s) == [i \in 1..Len(s) |-> IF s[i] = "/" THEN ARROW ELSE s[i]]

\* the expression of lines 705, 779 and 794 on a path and a prefix directory
Identifier(path, input_dir) ==
    ReplaceSeparators(StripExtension(RemovePrefix(path, input_dir \o <<"/">>)))

\* lines 200-201: get_name_from_path, os.path.basename(path).split(".")[0]
GetNameFromPath(path) ==
    LET seps == {i \in 1..Len(path) : path[i] = "/"}
        base == IF seps = {} THEN path
                ELSE SubSeq(path, (CHOOSE i \in seps : \A j \in seps : j <= i) + 1, Len(path))
        dots == {i \in 1..Len(base) : base[i] = "."}
    IN  IF dots = {} THEN base
        ELSE SubSeq(base, 1, (CHOOSE i \in dots : \A j \in dots : i <= j) - 1)

\* a variant of the worker's key that names the document as get_name_from_path does
WorkerIdentifierByName(file_path, input_dir) == GetNameFromPath(file_path)
\* line 705: the key worker_process writes, from file_path and its input_dir
WorkerIdentifier(file_path, input_dir) == Identifier(file_path, input_dir)

\* lines 779 and 794: the key main looks up in already_done; in directory
\* mode from the walked path, for a single file from args.input_path itself,
\* each with args.input_path as the prefix
MainIdentifier(path, args_input_path) == Identifier(path, args_input_path)

(* ---------------------------- file system ----------------------------- *)

InputRoot == <<"r">>
FileA_pdf == <<"r", "/", "a", ".", "p">>
FileA_jpg == <<"r", "/", "a", ".", "j">>
FileB_pdf == <<"r", "/", "d", "/", "b", ".", "p">>
FileN_txt == <<"r", "/", "n", ".", "t">>
FileHidden == <<"r", "/", ".", "h">>

\* os.walk order of the files below the input root
WalkOrder == <<FileA_pdf, FileN_txt, FileA_jpg, FileHidden, FileB_pdf>>

\* filetype.guess(path).extension, <<>> when the type is unknown
GuessType(path) ==
    IF path \in {FileA_pdf, FileB_pdf, FileHidden} THEN <<"pdf">>
    ELSE IF path = FileA_jpg THEN <<"jpg">>
    ELSE <<>>

IsDir(path) == path = InputRoot

\* whether the layout model finds a table-labelled box in the document
HasTables(path) == path = FileB_pdf

Basename(path) ==
    LET seps == {i \in 1..Len(path) : path[i] = "/"}
    IN  IF seps = {} THEN path
        ELSE SubSeq(path, (CHOOSE i \in seps : \A j \in seps : j <= i) + 1, Len(path))

RECURSIVE SelectSeqIdx(_, _, _)
\* the subsequence of s of the elements satisfying Test, in order
SelectSeqIdx(s, Test(_), i) ==
    IF i > Len(s) THEN <<>>
    ELSE (IF Test(s[i]) THEN <<s[i]>> ELSE <<>>) \o SelectSeqIdx(s, Test, i + 1)

\* the walk of main: every non-hidden file below the input path
AllFiles(input_path) ==
    LET NotHidden(p) == Basename(p)[1] # "."
    IN  SelectSeqIdx(WalkOrder, NotHidden, 1)

SupportedTypes == {<<"pdf">>, <<"jpg">>, <<"jpeg">>, <<"png">>}

\* the files of the input root that run_ocr_on_gpu accepts
SupportedFiles == {FileA_pdf, FileA_jpg, FileB_pdf}

(* ------------------------- the checkpoint file ------------------------ *)

None == <<>>
Some(x) == <<x>>

NoId == <<>>
NoEntry == [status |-> "", wc |-> None, np |-> None, conf |-> 0,
            tt |-> None, ts |-> 0, error |-> None]

LBrace == [t |-> "{", k |-> NoId, v |-> NoEntry]
RBrace == [t |-> "}", k |-> NoId, v |-> NoEntry]
Item(k, v) == [t |-> "item", k |-> k, v |-> v]

\* json.dump(data, f): the text written, one token per write
Serialize(data) ==
    <<LBrace>> \o [i \in 1..Len(data) |-> Item(data[i][1], data[i][2])] \o <<RBrace>>

\* json.load accepts exactly a complete object
IsValidJson(bytes) ==
    /\ Len(bytes) >= 2
    /\ bytes[1].t = "{"
    /\ bytes[Len(bytes)].t = "}"
    /\ \A i \in 2..(Len(bytes) - 1) : bytes[i].t = "item"

\* json.load on valid text: the ordered dict of <<key, value>> pairs
Parse(bytes) == [i \in 1..(Len(bytes) - 2) |-> <<bytes[i + 1].k, bytes[i + 1].v>>]

Keys(data) == {data[i][1] : i \in 1..Len(data)}
Get(data, k) == data[CHOOSE i \in 1..Len(data) : data[i][1] = k][2]

\* a variant of the assignment that starts from an empty dict
SetItemFresh(data, k, v) == <<(<<k, v>>)>>
\* data[k] = v on a dict: an existing key keeps its place, a new one is appended
SetItem(data, k, v) ==
    IF k \in Keys(data)
    THEN [i \in 1..Len(data) |-> IF data[i][1] = k THEN <<k, v>> ELSE data[i]]
    ELSE Append(data, <<k, v>>)

AbsentFile == [exists |-> FALSE, bytes |-> <<>>]
\* a checkpoint a terminated earlier run left half written
TruncatedFile == [exists |-> TRUE, bytes |-> <<LBrace>>]

FileIsCorrupt(f) == f.exists /\ ~IsValidJson(f.bytes)
\* what a reader gets from a file that is absent or valid
FileData(f) == IF f.exists THEN Parse(f.bytes) ELSE <<>>

(* ---------------------------- merge engine --------------------------- *)

TableLabels == {"Table", "Table-of-contents"}

\* a layout box as layout_predictor returns it (label, bbox) and a text
\* line as rec_predictor returns it (bbox, text)
LayoutBox(label, bbox) == [label |-> label, bbox |-> bbox]
TextLine(bbox, text) == [bbox |-> bbox, text |-> text]

\* twice the center of a text line, lines 253-256: the code compares
\* (x0 + x2) / 2 with the edges, the model x0 + x2 with twice the edges
Center2(bbox) == <<bbox[1] + bbox[3], bbox[2] + bbox[4]>>

\* a variant of the comparison that counts points on the edge as inside
InsideOrOnEdge(c2, rect) ==
    /\ c2[1] >= 2 * rect[1] /\ c2[1] <= 2 * rect[3]
    /\ c2[2] >= 2 * rect[2] /\ c2[2] <= 2 * rect[4]
\* lines 270-273 and 284-287: strictly inside on both axes
Inside(c2, rect) ==
    /\ c2[1] > 2 * rect[1] /\ c2[1] < 2 * rect[3]
    /\ c2[2] > 2 * rect[2] /\ c2[2] < 2 * rect[4]

\* np.where(inside)[0]: the indices of the lines whose center is inside rect
MatchingIndices(text_lines, rect) ==
    LET Hit(i) == Inside(Center2(text_lines[i].bbox), rect)
    IN  SelectSeqIdx([i \in 1..Len(text_lines) |-> i], Hit, 1)

RECURSIVE JoinWithSpace(_)
\* " ".join(texts)
JoinWithSpace(texts) ==
    IF texts = <<>> THEN <<>>
    ELSE IF Len(texts) = 1 THEN texts[1]
    ELSE texts[1] \o <<" ">> \o JoinWithSpace(Tail(texts))

\* a variant of the rebasing that leaves the box in crop coordinates
AdjustBboxNoOffset(bbox1, bbox2) == bbox2
\* lines 293-300: adjust_bbox_to_original_size
AdjustBboxToOriginalSize(bbox1, bbox2) ==
    <<bbox2[1] + bbox1[1], bbox2[2] + bbox1[2], bbox2[3] + bbox1[1], bbox2[4] + bbox1[2]>>

\* table_rec_predictor on one crop: the crop's own frame, a left and a
\* right cell, one row and two columns, all in crop coordinates
TableRec(crop_bbox) ==
    LET w == crop_bbox[3] - crop_bbox[1]
        h == crop_bbox[4] - crop_bbox[2]
    IN  [image_bbox |-> <<0, 0, w, h>>,
         cells |-> <<[bbox |-> <<0, 0, w \div 2, h>>],
                     [bbox |-> <<w \div 2, 0, w, h>>]>>,
         rows |-> <<[bbox |-> <<0, 0, w, h>>]>>,
         cols |-> <<[bbox |-> <<0, 0, w \div 2, h>>],
                    [bbox |-> <<w \div 2, 0, w, h>>]>>]

\* lines 508-511: the table boxes of one page, in box order
TableBboxesOfPage(page) ==
    LET IsTable(b) == b.label \in TableLabels
        boxes == SelectSeqIdx(page, IsTable, 1)
    IN  [i \in 1..Len(boxes) |-> boxes[i].bbox]

RECURSIVE Flatten(_)
Flatten(seqs) == IF seqs = <<>> THEN <<>> ELSE Head(seqs) \o Flatten(Tail(seqs))

RECURSIVE AdvancePage(_, _, _, _)
\* lines 529-531: the while loop that moves to the page of crop i (from 0)
AdvancePage(i, page_idx, prev_count, table_counts) ==
    IF i >= prev_count + table_counts[page_idx + 1]
    THEN AdvancePage(i, page_idx + 1, prev_count + table_counts[page_idx + 1], table_counts)
    ELSE <<page_idx, prev_count>>

RECURSIVE TableLoop(_, _, _, _, _)
\* lines 528-548: one out_pred per crop, rebased by its page's table box
TableLoop(i, page_idx, prev_count, table_bboxes, table_imgs) ==
    IF i >= Len(table_imgs) THEN <<>>
    ELSE LET table_counts == [p \in 1..Len(table_bboxes) |-> Len(table_bboxes[p])]
             at == AdvancePage(i, page_idx, prev_count, table_counts)
             table_idx == i - at[2]
             box == table_bboxes[at[1] + 1][table_idx + 1]
             pred == TableRec(table_imgs[i + 1])
             out_pred ==
                 [page |-> at[1],
                  table_idx |-> table_idx,
                  adjusted_image_bbox |-> AdjustBboxToOriginalSize(box, pred.image_bbox),
                  cells |-> [c \in 1..Len(pred.cells) |->
                               [bbox |-> pred.cells[c].bbox,
                                adjusted_bbox |->
                                    AdjustBboxToOriginalSize(box, pred.cells[c].bbox),
                                text |-> None]],
                  rows |-> [r \in 1..Len(pred.rows) |->
                              [bbox |-> pred.rows[r].bbox,
                               adjusted_bbox |->
                                   AdjustBboxToOriginalSize(box, pred.rows[r].bbox)]],
                  cols |-> [c \in 1..Len(pred.cols) |->
                              [bbox |-> pred.cols[c].bbox,
                               adjusted_bbox |->
                                   AdjustBboxToOriginalSize(box, pred.cols[c].bbox)]]]
         IN  <<out_pred>> \o TableLoop(i + 1, at[1], at[2], table_bboxes, table_imgs)

\* lines 505-548: stage 4, the batch over the table crops of all pages
TableLayoutPreds(layout) ==
    LET table_bboxes == [p \in 1..Len(layout) |-> TableBboxesOfPage(layout[p])]
        table_imgs == Flatten(table_bboxes)
    IN  TableLoop(0, 0, 0, table_bboxes, table_imgs)

\* lines 263-276: the text of every cell of a table
FillCells(cells, text_lines) ==
    [c \in 1..Len(cells) |->
       LET idxs == MatchingIndices(text_lines, cells[c].adjusted_bbox)
       IN  [cells[c] EXCEPT !.text =
              Some(JoinWithSpace([j \in 1..Len(idxs) |-> text_lines[idxs[j]].text]))]]

\* a layout box of merged_dict before the merge has touched it
Unmerged(b) == [label |-> b.label, bbox |-> b.bbox, text_lines |-> None,
                table_content |-> None]

RECURSIVE MergeBoxes(_, _, _)
\* lines 258-289: the boxes of one page in order; the queue dict_c[file_key]
\* loses its head at every table-labelled box.  Result: <<boxes, queue>>
MergeBoxes(bboxes, text_lines, queue) ==
    IF bboxes = <<>> THEN <<(<<>>), queue>>
    ELSE LET b == Head(bboxes)
             merged ==
                 IF b.label \in TableLabels
                 THEN [b EXCEPT !.table_content =
                          Some([Head(queue) EXCEPT
                                  !.cells = FillCells(@, text_lines)])]
                 ELSE LET idxs == MatchingIndices(text_lines, b.bbox)
                      IN  [b EXCEPT !.text_lines =
                              Some([j \in 1..Len(idxs) |-> text_lines[idxs[j]]])]
             rest == MergeBoxes(Tail(bboxes), text_lines,
                                IF b.label \in TableLabels THEN Tail(queue) ELSE queue)
         IN  <<(<<merged>> \o rest[1]), rest[2]>>

\* line 249: a page without text lines or without boxes is left as it is
PageIsSkipped(bboxes, text_lines) == text_lines = <<>> \/ bboxes = <<>>

RECURSIVE MergePages(_, _, _)
\* lines 243-289: the pages in order.  Result: <<pages, queue>>
MergePages(pages, lines, queue) ==
    IF pages = <<>> THEN <<(<<>>), queue>>
    ELSE LET here == IF PageIsSkipped(Head(pages), Head(lines))
                     THEN <<Head(pages), queue>>
                     ELSE MergeBoxes(Head(pages), Head(lines), queue)
             rest == MergePages(Tail(pages), Tail(lines), here[2])
         IN  <<(<<here[1]>> \o rest[1]), rest[2]>>

\* lines 236-291: match_and_merge_bboxes for one document: the merged
\* pages and what is left of the table queue
MatchAndMergeBboxes(layout, lines, tables) ==
    LET fresh == [p \in 1..Len(layout) |->
                    [i \in 1..Len(layout[p]) |-> Unmerged(layout[p][i])]]
        out == MergePages(fresh, lines, tables)
    IN  [pages |-> out[1], left |-> out[2]]

\* the boxes and lines the merge is checked on, on a page of 8 by 8
BoxLeft == LayoutBox("Text", <<0, 0, 4, 4>>)
BoxRight == LayoutBox("Text", <<4, 0, 8, 4>>)
BoxMiddle == LayoutBox("Text", <<2, 0, 6, 4>>)
BoxTable == LayoutBox("Table", <<0, 4, 8, 8>>)
BoxToc == LayoutBox("Table-of-contents", <<0, 0, 6, 4>>)

LineInLeft == TextLine(<<1, 1, 3, 3>>, <<"a">>)
LineOnSharedEdge == TextLine(<<3, 1, 5, 3>>, <<"b">>)
LineInOverlap == TextLine(<<2, 1, 4, 3>>, <<"c">>)
LineInCell == TextLine(<<1, 5, 2, 6>>, <<"d">>)
LineInCellToo == TextLine(<<2, 6, 3, 7>>, <<"e">>)
LineOutside == TextLine(<<9, 9, 11, 11>>, <<"f">>)

PageLayouts ==
    {<<>>, <<BoxLeft, BoxRight>>, <<BoxLeft, BoxMiddle>>, <<BoxTable>>,
     <<BoxLeft, BoxTable>>, <<BoxToc, BoxTable>>}
PageLines ==
    {<<>>, <<LineInLeft>>, <<LineOnSharedEdge, LineInOverlap>>,
     <<LineInCell, LineOutside, LineInCellToo>>,
     <<LineInOverlap, LineInCell>>}

(* ----------------------------- page ranges ---------------------------- *)

Digits == <<"0", "1", "2", "3", "4", "5", "6", "7", "8", "9">>
DigitValue(c) == (CHOOSE i \in 1..Len(Digits) : Digits[i] = c) - 1

\* whether int(s) returns for a string of this model's alphabet
IsInt(s) == s # <<>> /\ \A i \in 1..Len(s) : \E d \in 1..Len(Digits) : Digits[d] = s[i]

RECURSIVE IntOf(_)
\* int(s) for a string of decimal digits
IntOf(s) ==
    IF s = <<>> THEN 0
    ELSE 10 * IntOf(SubSeq(s, 1, Len(s) - 1)) + DigitValue(s[Len(s)])

RECURSIVE Split(_, _)
\* s.split(sep) for a one-character separator
Split(s, sep) ==
    LET at == {i \in 1..Len(s) : s[i] = sep}
    IN  IF at = {} THEN <<s>>
        ELSE LET first == CHOOSE i \in at : \A j \in at : i <= j
             IN  <<SubSeq(s, 1, first - 1)>> \o Split(SubSeq(s, first + 1, Len(s)), sep)

\* list(range(a, b))
RangeList(a, b) == IF b > a THEN [i \in 1..(b - a) |-> a + i - 1] ELSE <<>>

\* lines 722-727: the pages one item adds, or raises when a part is not an
\* integer or a dash item does not split in two
ParseItem(i) ==
    IF "-" \in {i[k] : k \in 1..Len(i)}
    THEN LET parts == Split(i, "-")
         IN  IF Len(parts) = 2 /\ IsInt(parts[1]) /\ IsInt(parts[2])
             THEN [ok |-> TRUE, pages |-> RangeList(IntOf(parts[1]), IntOf(parts[2]) + 1)]
             ELSE [ok |-> FALSE, pages |-> <<>>]
    ELSE IF IsInt(i) THEN [ok |-> TRUE, pages |-> <<IntOf(i)>>]
         ELSE [ok |-> FALSE, pages |-> <<>>]

\* a variant of the last line that returns page_lst as it was collected
Unsorted(page_lst) == page_lst
RECURSIVE SortSet(_)
SortSet(S) ==
    IF S = {} THEN <<>>
    ELSE LET m == CHOOSE x \in S : \A y \in S : x <= y
         IN  <<m>> \o SortSet(S \ {m})
\* line 728: sorted(set(page_lst))
SortedSet(page_lst) == SortSet({page_lst[k] : k \in 1..Len(page_lst)})

\* lines 719-728: parse_range_str
ParseRangeStr(range_str) ==
    LET range_lst == Split(range_str, ",")
        items == [k \in 1..Len(range_lst) |-> ParseItem(range_lst[k])]
    IN  IF \E k \in 1..Len(items) : ~items[k].ok
        THEN [ok |-> FALSE, pages |-> <<>>]
        ELSE [ok |-> TRUE,
              pages |-> SortedSet(Flatten([k \in 1..Len(items) |-> items[k].pages]))]

\* lines 40-41
IMAGE_DPI == 96
IMAGE_DPI_HIGHRES == 192

\* width and height of every page of the PDFs, in points (1/72 inch)
PdfPagePoints == <<612, 792>>

\* line 213: doc[i].render(scale=IMAGE_DPI/72): the pixel size of a page
\* image; the dpi argument of load_pdf is not used
RenderPage(points, dpi) ==
    <<(points[1] * IMAGE_DPI) \div 72, (points[2] * IMAGE_DPI) \div 72>>

\* a variant of the check that lets every page list through
PageRangeIsValidAlways(page_range, last_page) == TRUE
\* line 209: every 0-based page is one of the document
PageRangeIsValid(page_range, last_page) ==
    \A k \in 1..Len(page_range) : 0 <= page_range[k] /\ page_range[k] < last_page

\* lines 203-216: load_pdf on a document of last_page pages; page_range is
\* None or a list.  images are the 0-based pages rendered, those the
\* document has (doc[i] raises on any other)
LoadPdf(last_page, page_range) ==
    IF page_range # None /\ page_range[1] # <<>>
    THEN LET shifted == [k \in 1..Len(page_range[1]) |-> page_range[1][k] - 1]
         IN  IF PageRangeIsValid(shifted, last_page)
             THEN [ok |-> TRUE, images |-> shifted]
             ELSE [ok |-> FALSE, images |-> <<>>]
    ELSE [ok |-> TRUE, images |-> RangeList(0, last_page)]

\* the items the page-range expressions are built of, with a range whose
\* end is below its start and the empty item
ItemTexts ==
    {<<"0">>, <<"1">>, <<"3">>, <<"1", "2">>, <<"1", "-", "3">>, <<"2", "-", "2">>,
     <<"5", "-", "9">>, <<"3", "-", "1">>, <<>>}

RECURSIVE JoinWithComma(_)
JoinWithComma(texts) ==
    IF Len(texts) = 1 THEN texts[1]
    ELSE texts[1] \o <<",">> \o JoinWithComma(Tail(texts))

\* the --page_range arguments: no argument, or up to MaxItems items
RangeExprs ==
    {<<>>} \cup UNION {{JoinWithComma(t) : t \in [1..n -> ItemTexts]} : n \in 1..MaxItems}

\* len(doc) of the PDFs
PdfPageCounts == {0, 3, 9}

(* ----------------------------- confidences ---------------------------- *)

RECURSIVE SumSeq(_)
SumSeq(s) == IF s = <<>> THEN 0 ELSE Head(s) + SumSeq(Tail(s))

\* a variant of the page confidence that does not divide
PageConfidenceTotal(text_lines) == SumSeq(text_lines)
\* lines 478-483: the mean of the line confidences, 0.0 without lines.
\* Confidences are counted in 72nds so that every mean of this model's
\* pages and documents is a whole number
PageConfidence(text_lines) ==
    IF text_lines # <<>> THEN SumSeq(text_lines) \div Len(text_lines) ELSE 0

\* lines 473-485: rec_preds[pdf_name], one entry per recognized image; the
\* key exists only once the loop body has run
RecPreds(lines_by_image) ==
    [p \in 1..Len(lines_by_image) |->
        [page |-> p, page_confidence |-> PageConfidence(lines_by_image[p])]]

\* lines 594-599: the loop over rec_preds.items() binds doc_conf once per
\* key; without a key the name stays unbound (None here)
DocConf(rec_preds) ==
    IF rec_preds = <<>> THEN None
    ELSE LET page_confidences == [p \in 1..Len(rec_preds) |-> rec_preds[p].page_confidence]
         IN  Some(SumSeq(page_confidences) \div Len(page_confidences))

\* the line confidences of a page: 0.0, 0.5 and 1.0 in 72nds
PageLineConfidences ==
    {<<>>, <<0>>, <<72>>, <<36, 72>>, <<72, 72>>, <<0, 36, 72>>, <<72, 0, 0>>}

\* a document: the lines of each of its 0 to MaxPages pages
DocumentLines == UNION {[1..n -> PageLineConfidences] : n \in 0..MaxPages}

(* ------------------------------- state -------------------------------- *)

VARIABLES
    gpus,             \* the GPU id list of the command line (gpu_ids)
    input_path,       \* args.input_path
    run,              \* how many times the program has been started; the clock
    kills,            \* worker processes terminated from outside so far
    failing,          \* the files on which the pipeline raises, in this run
    m_layout,         \* merge: layout_preds of a document, a box list per page
    m_lines,          \* merge: rec_preds of the document, a line list per page
    m_tables,         \* merge: table_layout_preds of the document
    m_out,            \* merge: the merged pages and the rest of the table queue
    mpc,              \* merge: "idle", "loaded", "tables" or "merged"
    f_expr,           \* pages: the --page_range argument
    f_last_page,      \* pages: len(doc) of the PDF that load_pdf opens
    f_range,          \* pages: what parse_range_str returned
    f_images,         \* pages: the 0-based pages load_pdf rendered, in order
    f_render,         \* pages: pixel sizes of pdf_images_lowres and pdf_images_highres
    f_lines,          \* confidence: the line confidences of every recognized page
    f_pages,          \* confidence: page_confidence of every page of rec_preds
    f_ret,            \* confidence: what run_ocr_on_gpu returned and the entry stored
    fpc,              \* position of the stage under study, "idle" when none
    ckpt,             \* checkpoint.json: [exists, bytes]
    outputs,          \* identifiers whose merged and raw-text files are written
    lock,             \* holder of checkpoint.json.lock, 0 when free
    progress_counter, \* the shared Value('i')
    clock,            \* holder of the counter's lock, 0 when free, "main" for main
    wread,            \* the value a worker read for its += 1, 0 outside it
    opc,              \* position of main
    checkpoint_data,  \* main's parse of the checkpoint at startup
    file_paths,       \* main's list of files to process
    spawned,          \* entries of gpu_ids the spawn loop has handled
    waited,           \* entries of gpu_ids whose event main has waited for
    last_val,         \* main's last reading of the progress counter
    summary,          \* what main computed for its final summary, <<>> before
    wpc,              \* position of each worker process
    wfiles,           \* file_paths argument of each worker process
    widx,             \* index of the file a worker is at
    wkw,              \* arguments of the worker's current update_checkpoint call
    wmode,            \* "try" or "except": where update_checkpoint was called
    wdata,            \* update_checkpoint's local dict
    wpos,             \* tokens of the rewrite written so far
    ready,            \* how many times each model_ready_event was set
    loaded,           \* whether init_worker loaded all the predictors
    wfail,            \* why a worker process died
    resource_stats,   \* the accumulator of the main process (a module global)
    mon_pc,           \* position of the monitor thread
    mon_sample,       \* the readings the monitor thread holds, <<>> when none
    averages          \* the averages the main process printed, <<>> before

ovars == <<opc, checkpoint_data, file_paths, spawned, waited, last_val, summary>>
wvars == <<wpc, wfiles, widx, wkw, wmode, wdata, wpos, ready, loaded, wfail>>
mvars == <<m_layout, m_lines, m_tables, m_out, mpc>>
fvars == <<f_expr, f_last_page, f_range, f_images, f_render, f_lines, f_pages, f_ret,
          fpc>>
monvars == <<resource_stats, mon_pc, mon_sample, averages>>
envvars == <<gpus, input_path, run, kills, failing, mvars, fvars>>
vars == <<envvars, monvars, ckpt, outputs, lock, progress_counter, clock, wread, ovars, wvars>>

GpuLists == {<<0>>, <<0, 1>>, <<0, 0>>}
InputPaths == {InputRoot, FileA_pdf, FileN_txt}

Workers == 1..Len(gpus)
NoKw == [id |-> NoId, entry |-> NoEntry]

\* the worker has returned from update_checkpoint and is at lines 716-717
AtIncrement(w) == wpc[w] \in {"incr", "incr_write"}

\* a variant of is_alive() and join() that takes every process for ended
AliveNever(w) == FALSE
\* p.is_alive() of line 863; p.join() of line 877 returns when it is false
Alive(w) == wpc[w] \notin {"unstarted", "exited", "crashed", "killed"}

\* a variant of the counter's lock that never makes a process wait
CounterCanAcquireAlways(p) == TRUE

\* progress_counter.get_lock() is free (p is the process that asks)
CounterCanAcquire(p) == clock = 0

(* -------------------------- resource monitor -------------------------- *)

\* lines 54-59: the accumulator as the module is imported
NoStats == [cpu_sum |-> 0, cpu_count |-> 0, ram_sum |-> 0, ram_count |-> 0,
            gpu_util_sum |-> 0, gpu_util_count |-> 0,
            gpu_mem_sum |-> 0, gpu_mem_count |-> 0]

\* lines 84-91: the eight statements that update the accumulator, in order
MonitorStatements ==
    <<"cpu_sum", "cpu_count", "ram_sum", "ram_count",
      "gpu_util_sum", "gpu_util_count", "gpu_mem_sum", "gpu_mem_count">>

\* what psutil and NVML report at one moment: CPU percent, resident MB, and
\* utilisation and used MB of each GPU
Readings ==
    {[cpu |-> 0, mem |-> 100, util |-> [g \in {0, 1} |-> 0], used |-> [g \in {0, 1} |-> 0]],
     [cpu |-> 50, mem |-> 300, util |-> [g \in {0, 1} |-> 80 - 40 * g],
      used |-> [g \in {0, 1} |-> 20 + 10 * g]]}

\* lines 81-82: sum(vals) / len(vals) over the GPU id list
MeanOverGpus(by_gpu) == SumSeq([i \in 1..Len(gpus) |-> by_gpu[gpus[i]]]) \div Len(gpus)

\* lines 68-82: the locals of one sample
SampleOf(reading) ==
    [cpu_percent |-> reading.cpu, mem_info |-> reading.mem,
     avg_gpu_util |-> MeanOverGpus(reading.util),
     avg_gpu_mem |-> MeanOverGpus(reading.used)]

\* the right-hand side of each += of lines 84-91
Amount(statement, sample) ==
    CASE statement = "cpu_sum" -> sample.cpu_percent
      [] statement = "ram_sum" -> sample.mem_info
      [] statement = "gpu_util_sum" -> sample.avg_gpu_util
      [] statement = "gpu_mem_sum" -> sample.avg_gpu_mem
      [] OTHER -> 1

\* a variant of the updates that never counts the GPU memory samples
StatsAfterNoVramCount(stats, statement, sample) ==
    IF statement = "gpu_mem_count" THEN stats
    ELSE [stats EXCEPT ![statement] = @ + Amount(statement, sample)]

\* one statement of lines 84-91
StatsAfter(stats, statement, sample) ==
    [stats EXCEPT ![statement] = @ + Amount(statement, sample)]

\* the statement after one of lines 84-91; after the last, line 93
NextStatement(statement) ==
    LET i == CHOOSE j \in 1..Len(MonitorStatements) : MonitorStatements[j] = statement
    IN  IF i = Len(MonitorStatements) THEN "sleep" ELSE MonitorStatements[i + 1]

\* the monitor is a daemon thread of the main process: it runs while that
\* process does
MainProcessRuns == opc \notin {"raised", "summary_raised"} /\ averages = <<>>

\* lines 68-82: the readings of one sample
MonSample ==
    /\ mon_pc = "sample"
    /\ MainProcessRuns
    /\ resource_stats.cpu_count < MaxSamples
    /\ \E reading \in Readings : mon_sample' = <<SampleOf(reading)>>
    /\ mon_pc' = MonitorStatements[1]
    /\ UNCHANGED <<envvars, resource_stats, averages, ckpt, outputs, lock, progress_counter,
                   clock, wread, ovars, wvars>>

\* lines 94-95: a reading raises, and the handler leaves the loop
MonSampleRaises ==
    /\ mon_pc = "sample"
    /\ MainProcessRuns
    /\ mon_pc' = "stopped"
    /\ UNCHANGED <<envvars, resource_stats, mon_sample, averages, ckpt, outputs, lock,
                   progress_counter, clock, wread, ovars, wvars>>

\* lines 84-91, one statement at a time
MonUpdate ==
    /\ \E j \in 1..Len(MonitorStatements) : MonitorStatements[j] = mon_pc
    /\ MainProcessRuns
    /\ resource_stats' = StatsAfter(resource_stats, mon_pc, mon_sample[1])
    /\ mon_pc' = NextStatement(mon_pc)
    /\ UNCHANGED <<envvars, mon_sample, averages, ckpt, outputs, lock, progress_counter,
                   clock, wread, ovars, wvars>>

\* line 93: time.sleep(log_interval), then the next round of the loop
MonSleep ==
    /\ mon_pc = "sleep"
    /\ MainProcessRuns
    /\ mon_sample' = <<>>
    /\ mon_pc' = "sample"
    /\ UNCHANGED <<envvars, resource_stats, averages, ckpt, outputs, lock, progress_counter,
                   clock, wread, ovars, wvars>>

\* total / count, which raises ZeroDivisionError (None) when count is 0
Divide(total, count) == IF count = 0 THEN None ELSE Some(total \div count)

\* line 897: safe_avg
SafeAvg(total, count) == IF count > 0 THEN Divide(total, count) ELSE Some(0)

\* lines 895-902: main() has returned and the four averages are printed
OAverages ==
    /\ opc \in {"done", "returned"}
    /\ averages = <<>>
    /\ averages' = <<[cpu |-> SafeAvg(resource_stats.cpu_sum, resource_stats.cpu_count),
                      ram |-> SafeAvg(resource_stats.ram_sum, resource_stats.ram_count),
                      gpu_util |-> SafeAvg(resource_stats.gpu_util_sum,
                                           resource_stats.gpu_util_count),
                      gpu_mem |-> SafeAvg(resource_stats.gpu_mem_sum,
                                          resource_stats.gpu_mem_count)]>>
    /\ UNCHANGED <<envvars, resource_stats, mon_pc, mon_sample, ckpt, outputs, lock,
                   progress_counter, clock, wread, ovars, wvars>>

(* ------------------------------ main ---------------------------------- *)

\* a variant of already_done that holds file paths, which no identifier equals
AlreadyDonePaths(data) == {}
\* a variant of already_done that forgets to look at the status
AlreadyDoneAnyStatus(data) == Keys(data)
\* already_done: the identifiers whose entry has status done
AlreadyDone(data) == {k \in Keys(data) : Get(data, k).status = "done"}

\* a variant of the type test that accepts every file
IsSupportedAlways(path) == TRUE
\* lines 778 and 802: the type is known and one of the four
IsSupported(path) == GuessType(path) \in SupportedTypes

\* directory mode: the supported files whose identifier is not already done
PendingInDir(all_files, data) ==
    LET Keep(p) == IsSupported(p) /\ MainIdentifier(p, input_path) \notin AlreadyDone(data)
    IN  SelectSeqIdx(all_files, Keep, 1)

\* a variant of the mapping that gives every GPU the whole list
PathGpuMappingAll(g) == file_paths
\* path_gpu_mapping[g]: file i (from 0) goes to gpu_ids[i % len(gpu_ids)]
PathGpuMapping(g) ==
    LET Mine(i) == gpus[((i - 1) % Len(gpus)) + 1] = g
        idxs == SelectSeqIdx([i \in 1..Len(file_paths) |-> i], Mine, 1)
    IN  [j \in 1..Len(idxs) |-> file_paths[idxs[j]]]

\* lines 742-750: the startup read of the checkpoint
OReadCheckpoint ==
    /\ opc = "start"
    /\ IF FileIsCorrupt(ckpt)
       THEN /\ opc' = "raised"
            /\ UNCHANGED checkpoint_data
       ELSE /\ opc' = "discover"
            /\ checkpoint_data' = FileData(ckpt)
    /\ UNCHANGED <<envvars, monvars, outputs, ckpt, lock, progress_counter, clock, wread, summary, file_paths, spawned,
                   waited, last_val, wvars>>

\* lines 763-809: discovery and filtering, directory or single file
ODiscover ==
    /\ opc = "discover"
    /\ IF IsDir(input_path)
       THEN LET pending == PendingInDir(AllFiles(input_path), checkpoint_data)
            IN  /\ file_paths' = pending
                /\ opc' = IF pending = <<>> THEN "returned" ELSE "spawn"
       ELSE IF MainIdentifier(input_path, input_path) \in AlreadyDone(checkpoint_data)
            THEN opc' = "returned" /\ file_paths' = <<>>
            ELSE IF IsSupported(input_path)
                 THEN opc' = "spawn" /\ file_paths' = <<input_path>>
                 ELSE opc' = "returned" /\ file_paths' = <<>>
    /\ UNCHANGED <<envvars, monvars, outputs, ckpt, lock, progress_counter, clock, wread, summary, checkpoint_data, spawned,
                   waited, last_val, wvars>>

\* line 825 starts the monitor thread; lines 833-847: the spawn loop: one
\* process per entry of gpu_ids whose list is not empty, each with its own
\* event
OSpawn ==
    /\ opc = "spawn"
    /\ spawned' = Len(gpus)
    /\ wfiles' = [k \in Workers |-> PathGpuMapping(gpus[k])]
    /\ wpc' = [k \in Workers |->
                 IF PathGpuMapping(gpus[k]) = <<>> THEN "unstarted" ELSE "init"]
    /\ opc' = "wait"
    /\ mon_pc' = "sample"
    /\ UNCHANGED <<envvars, resource_stats, mon_sample, averages, outputs, ckpt, lock, progress_counter, clock, wread, summary, checkpoint_data, file_paths,
                   waited, last_val, widx, wkw, wmode, wdata, wpos, ready, loaded, wfail>>

\* lines 852-854: event.wait() on the event of every spawned worker, in
\* order, with no timeout
OWait ==
    /\ opc = "wait"
    /\ \A k \in Workers : wfiles[k] # <<>> => ready[k] > 0
    /\ waited' = Len(gpus)
    /\ opc' = "poll"
    /\ UNCHANGED <<envvars, monvars, outputs, ckpt, lock, progress_counter, clock, wread, summary, checkpoint_data, file_paths,
                   spawned, last_val, wvars>>

\* lines 863-873: the polling loop and the final reading
OPoll ==
    /\ opc = "poll"
    /\ CounterCanAcquire(0)
    /\ last_val' = progress_counter
    /\ opc' = IF \E w \in Workers : Alive(w) THEN opc ELSE "join"
    /\ UNCHANGED <<envvars, monvars, outputs, ckpt, lock, progress_counter, clock, wread, summary, checkpoint_data, file_paths,
                   spawned, waited, wvars>>

\* lines 876-877: p.join() for every process
OJoin ==
    /\ opc = "join"
    /\ \A w \in Workers : ~Alive(w)
    /\ opc' = "summary"
    /\ UNCHANGED <<envvars, monvars, outputs, ckpt, lock, progress_counter, clock, wread, summary, checkpoint_data, file_paths,
                   spawned, waited, last_val, wvars>>

\* the values of a dict, in its order
Values(data) == [i \in 1..Len(data) |-> data[i][2]]

\* line 883: entry.get("word count") is not None
HasWordCount(entry) == entry.wc # None

\* lines 884-885: d["status"] == "done" and d["error"] is None
IsCounted(d) == d.status = "done" /\ d.error = None

\* sum() over a generator of optional numbers: adding None raises TypeError
SumRaises(values) == \E i \in 1..Len(values) : values[i] = None
SumOf(values) == SumSeq([i \in 1..Len(values) |-> values[i][1]])

\* lines 883-890 on the dict that json.load returned
Summarize(data) ==
    LET with_words == SelectSeq(Values(data), HasWordCount)
        words == [i \in 1..Len(with_words) |-> with_words[i].wc]
        counted == SelectSeq(Values(data), IsCounted)
        times == [i \in 1..Len(counted) |-> counted[i].tt]
        pages == [i \in 1..Len(counted) |-> counted[i].np]
        total_pages == SumOf(pages)
    IN  IF SumRaises(times) \/ SumRaises(pages)
        THEN [raised |-> TRUE, keys |-> Keys(data), word_count |-> 0, total_time |-> 0,
              total_pages |-> 0, has_average |-> FALSE]
        ELSE [raised |-> FALSE, keys |-> Keys(data),
              word_count |-> SumOf(words),
              total_time |-> SumOf(times), total_pages |-> total_pages,
              has_average |-> total_pages > 0]

\* lines 880-890: the final read of the checkpoint (json.load, not guarded)
\* and the totals; nothing is printed when the file does not exist
OSummary ==
    /\ opc = "summary"
    /\ summary' = IF ckpt.exists /\ ~FileIsCorrupt(ckpt)
                  THEN <<Summarize(FileData(ckpt))>> ELSE <<>>
    /\ opc' = IF FileIsCorrupt(ckpt) \/ (ckpt.exists /\ Summarize(FileData(ckpt)).raised)
              THEN "summary_raised" ELSE "done"
    /\ UNCHANGED <<envvars, monvars, outputs, ckpt, lock, progress_counter, clock, wread,
                   checkpoint_data, file_paths, spawned, waited, last_val, wvars>>

(* --------------------------- worker process --------------------------- *)

\* what run_ocr_on_gpu returns (word_count, num_pages, doc_conf) or raises
\* written: whether the merged and the raw-text file (lines 603-615) were
\* written before the function ended; the raises of this model (the file
\* cannot be loaded, a predictor is None or fails) come before line 603
PipelineOutcomes ==
    {[ok |-> TRUE, wc |-> 4, np |-> 2, conf |-> 1, msg |-> "ok", written |-> TRUE],
     [ok |-> FALSE, wc |-> 0, np |-> 0, conf |-> 0, msg |-> "pipeline error",
      written |-> FALSE]}

\* run_ocr_on_gpu raises on a file it cannot process and when it calls a
\* predictor that init_worker left as None: the layout, detection and
\* recognition predictors are called for every document, the table
\* predictor only when there are table crops (line 522)
PipelineRaises(w, path) ==
    \/ path \in failing
    \/ ~IsSupported(path)
    \/ loaded[w] = "none"
    \/ loaded[w] = "no_table_rec" /\ HasTables(path)

\* a variant of the pipeline that writes no output file
OutputsUntouched(outs, id, o) == outs
\* lines 603-615: with_layout/<id>.json and raw/<id>_raw_text.json
OutputsAfter(outs, id, o) == IF o.written THEN outs \cup {id} ELSE outs

\* a variant of the done call that leaves num_pages at its default
DoneEntryNoPages(o) == [status |-> "done", wc |-> Some(o.wc), np |-> None,
                        conf |-> o.conf, tt |-> Some(1), ts |-> run, error |-> None]
\* the dict update_checkpoint stores, by the keyword arguments of each call
DoneEntry(o) == [status |-> "done", wc |-> Some(o.wc), np |-> Some(o.np),
                 conf |-> o.conf, tt |-> Some(1), ts |-> run, error |-> None]
ErrorEntry(msg) == [status |-> "error", wc |-> None, np |-> None,
                    conf |-> 0, tt |-> Some(1), ts |-> run, error |-> Some(msg)]

\* where worker_process continues after init_worker: the out-of-memory
\* handler re-raises, every other handler returns
InitOutcomePc(outcome) == IF outcome = "oom" THEN "crashed" ELSE "set_ready"

\* lines 626-666 and 701: init_worker
WInitWorker(w) ==
    /\ wpc[w] = "init"
    /\ \E outcome \in {"ok", "oom", "error", "error_in_table_rec"} :
         /\ wpc' = [wpc EXCEPT ![w] = InitOutcomePc(outcome)]
         /\ loaded' = [loaded EXCEPT ![w] =
                         IF outcome = "ok" THEN "all"
                         ELSE IF outcome = "error_in_table_rec" THEN "no_table_rec"
                         ELSE "none"]
         /\ wfail' = [wfail EXCEPT ![w] =
                        IF InitOutcomePc(outcome) = "crashed" THEN "oom" ELSE @]
    /\ UNCHANGED <<envvars, monvars, outputs, ckpt, lock, progress_counter, clock, wread, ovars, wfiles, widx, wkw,
                   wmode, wdata, wpos, ready>>

\* line 704: the for loop takes the file at index i or ends the process
LoopPc(w, i) == IF i > Len(wfiles[w]) THEN "exited" ELSE "run"

\* line 702: model_ready_event.set()
WSetReady(w) ==
    /\ wpc[w] = "set_ready"
    /\ ready' = [ready EXCEPT ![w] = @ + 1]
    /\ wpc' = [wpc EXCEPT ![w] = LoopPc(w, widx[w])]
    /\ UNCHANGED <<envvars, monvars, outputs, ckpt, lock, progress_counter, clock, wread, ovars, wfiles, widx, wkw,
                   wmode, wdata, wpos, loaded, wfail>>

\* lines 705-714: the identifier, run_ocr_on_gpu, and the choice of the
\* update_checkpoint call (in the try block or in the handler)
WRunOcr(w) ==
    /\ wpc[w] = "run"
    /\ \E o \in PipelineOutcomes :
         LET file_path == wfiles[w][widx[w]]
             id == WorkerIdentifier(file_path, input_path)
         IN  /\ o.ok = ~PipelineRaises(w, file_path)
             /\ outputs' = OutputsAfter(outputs, id, o)
             /\ wkw' = [wkw EXCEPT ![w] =
                          [id |-> id,
                           entry |-> IF o.ok THEN DoneEntry(o) ELSE ErrorEntry(o.msg)]]
             /\ wmode' = [wmode EXCEPT ![w] = IF o.ok THEN "try" ELSE "except"]
    /\ wpc' = [wpc EXCEPT ![w] = "u_lock"]
    /\ UNCHANGED <<envvars, monvars, ckpt, lock, progress_counter, clock, wread, ovars, wfiles, widx,
                   wdata, wpos, ready, loaded, wfail>>

\* a variant of the lock that never excludes anyone
CanAcquireAlways(w) == TRUE
\* line 673: FileLock is exclusive
CanAcquire(w) == lock = 0

\* line 673: with FileLock(lock_path)
UAcquire(w) ==
    /\ wpc[w] = "u_lock"
    /\ CanAcquire(w)
    /\ lock' = w
    /\ wpc' = [wpc EXCEPT ![w] = "u_read"]
    /\ UNCHANGED <<envvars, monvars, outputs, ckpt, progress_counter, clock, wread, ovars, wfiles, widx, wkw, wmode,
                   wdata, wpos, ready, loaded, wfail>>

\* a variant of the read that starts a fresh ledger when the file does not parse
ReadRaisesNever(f) == FALSE
\* lines 674-679: json.load raises on a file that is there and does not parse
ReadRaises(f) == FileIsCorrupt(f)

\* lines 674-691: read (or raise), then data[identifier] = {...}
URead(w) ==
    /\ wpc[w] = "u_read"
    /\ IF ReadRaises(ckpt)
       THEN \* ValueError leaves the with block; in the try block it reaches
            \* the handler, whose own update_checkpoint call is not guarded
            /\ lock' = IF lock = w THEN 0 ELSE lock
            /\ IF wmode[w] = "try"
               THEN /\ wmode' = [wmode EXCEPT ![w] = "except"]
                    /\ wkw' = [wkw EXCEPT ![w].entry = ErrorEntry("corrupted checkpoint")]
                    /\ wpc' = [wpc EXCEPT ![w] = "u_lock"]
                    /\ UNCHANGED wfail
               ELSE /\ wpc' = [wpc EXCEPT ![w] = "crashed"]
                    /\ wfail' = [wfail EXCEPT ![w] = "checkpoint"]
                    /\ UNCHANGED <<wmode, wkw>>
            /\ UNCHANGED wdata
       ELSE /\ wdata' = [wdata EXCEPT ![w] =
                           SetItem(FileData(ckpt), wkw[w].id, wkw[w].entry)]
            /\ wpc' = [wpc EXCEPT ![w] = "u_open"]
            /\ UNCHANGED <<lock, wmode, wkw, wfail>>
    /\ UNCHANGED <<envvars, monvars, outputs, ckpt, progress_counter, clock, wread, ovars, wfiles, widx, wpos,
                   ready, loaded>>

\* line 693: open(checkpoint_path, "w") truncates the file
UOpen(w) ==
    /\ wpc[w] = "u_open"
    /\ ckpt' = [exists |-> TRUE, bytes |-> <<>>]
    /\ wpos' = [wpos EXCEPT ![w] = 0]
    /\ wpc' = [wpc EXCEPT ![w] = "u_write"]
    /\ UNCHANGED <<envvars, monvars, outputs, lock, progress_counter, clock, wread, ovars, wfiles, widx, wkw, wmode,
                   wdata, ready, loaded, wfail>>

\* the file after one more token is written at the writer's own position
WriteAt(bytes, pos, tok) ==
    IF pos < Len(bytes)
    THEN [i \in 1..Len(bytes) |-> IF i = pos + 1 THEN tok ELSE bytes[i]]
    ELSE Append(bytes, tok)

\* line 694: json.dump writes the text piece by piece; the file is closed
\* after the last piece
UWrite(w) ==
    /\ wpc[w] = "u_write"
    /\ LET text == Serialize(wdata[w])
       IN  /\ ckpt' = [ckpt EXCEPT !.bytes = WriteAt(@, wpos[w], text[wpos[w] + 1])]
           /\ wpos' = [wpos EXCEPT ![w] = @ + 1]
           /\ wpc' = [wpc EXCEPT ![w] =
                        IF wpos[w] + 1 = Len(text) THEN "u_unlock" ELSE "u_write"]
    /\ UNCHANGED <<envvars, monvars, outputs, lock, progress_counter, clock, wread, ovars, wfiles, widx, wkw, wmode,
                   wdata, ready, loaded, wfail>>

\* end of the with FileLock block: update_checkpoint returns
URelease(w) ==
    /\ wpc[w] = "u_unlock"
    /\ lock' = IF lock = w THEN 0 ELSE lock
    /\ wdata' = [wdata EXCEPT ![w] = <<>>]
    /\ wpos' = [wpos EXCEPT ![w] = 0]
    /\ wpc' = [wpc EXCEPT ![w] = "incr"]
    /\ UNCHANGED <<envvars, monvars, outputs, ckpt, progress_counter, clock, wread, ovars, wfiles, widx, wkw, wmode,
                   ready, loaded, wfail>>

\* lines 716-717: with progress_counter.get_lock(), and the read of
\* progress_counter.value that += 1 begins with
WIncrementRead(w) ==
    /\ wpc[w] = "incr"
    /\ CounterCanAcquire(w)
    /\ clock' = w
    /\ wread' = [wread EXCEPT ![w] = progress_counter]
    /\ wpc' = [wpc EXCEPT ![w] = "incr_write"]
    /\ UNCHANGED <<envvars, monvars, outputs, ckpt, lock, progress_counter, ovars, wfiles, widx,
                   wkw, wmode, wdata, wpos, ready, loaded, wfail>>

\* line 717: the store of += 1, the end of the with block and the next
\* iteration of the loop over file_paths
WIncrement(w) ==
    /\ wpc[w] = "incr_write"
    /\ progress_counter' = wread[w] + 1
    /\ clock' = 0
    /\ wread' = [wread EXCEPT ![w] = 0]
    /\ widx' = [widx EXCEPT ![w] = @ + 1]
    /\ wpc' = [wpc EXCEPT ![w] = LoopPc(w, widx[w] + 1)]
    /\ UNCHANGED <<envvars, monvars, outputs, ckpt, lock, ovars, wfiles, wkw, wmode, wdata, wpos,
                   ready, loaded, wfail>>

(* ---------------------------- environment ----------------------------- *)

\* a worker process is terminated from outside (the only way to stop a run);
\* the OS drops the file lock of a dead process
Kill(w) ==
    /\ Alive(w)
    /\ kills < MaxKills
    /\ kills' = kills + 1
    /\ wpc' = [wpc EXCEPT ![w] = "killed"]
    /\ wfail' = [wfail EXCEPT ![w] = wpc[w]]
    /\ lock' = IF lock = w THEN 0 ELSE lock
    /\ UNCHANGED <<gpus, input_path, run, failing, mvars, fvars, monvars, ckpt, outputs,
                   progress_counter, clock, wread, ovars,
                   wfiles, widx, wkw, wmode, wdata, wpos, ready, loaded>>

IdleWorker == [w \in Workers |->
    [pc |-> "unstarted", files |-> <<>>, idx |-> 1, kw |-> NoKw, mode |-> "try",
     data |-> <<>>, pos |-> 0, ready |-> 0, loaded |-> "none", fail |-> "none"]]

\* no process of the program exists yet
Fresh ==
    /\ opc = "start"
    /\ checkpoint_data = <<>>
    /\ file_paths = <<>>
    /\ spawned = 0
    /\ waited = 0
    /\ last_val = 0
    /\ summary = <<>>
    /\ resource_stats = NoStats
    /\ mon_pc = "unstarted"
    /\ mon_sample = <<>>
    /\ averages = <<>>
    /\ progress_counter = 0
    /\ clock = 0
    /\ wread = [w \in Workers |-> 0]
    /\ lock = 0
    /\ wpc = [w \in Workers |-> IdleWorker[w].pc]
    /\ wfiles = [w \in Workers |-> IdleWorker[w].files]
    /\ widx = [w \in Workers |-> IdleWorker[w].idx]
    /\ wkw = [w \in Workers |-> IdleWorker[w].kw]
    /\ wmode = [w \in Workers |-> IdleWorker[w].mode]
    /\ wdata = [w \in Workers |-> IdleWorker[w].data]
    /\ wpos = [w \in Workers |-> IdleWorker[w].pos]
    /\ ready = [w \in Workers |-> IdleWorker[w].ready]
    /\ loaded = [w \in Workers |-> IdleWorker[w].loaded]
    /\ wfail = [w \in Workers |-> IdleWorker[w].fail]

\* the program is started again on the same input and output directory
\* once the previous run has ended
Restart ==
    /\ opc \in {"raised", "returned", "done", "summary_raised"}
    /\ \A w \in Workers : ~Alive(w)
    /\ run < MaxRuns
    /\ run' = run + 1
    /\ failing' \in SUBSET SupportedFiles
    /\ opc' = "start"
    /\ checkpoint_data' = <<>>
    /\ file_paths' = <<>>
    /\ spawned' = 0
    /\ waited' = 0
    /\ last_val' = 0
    /\ summary' = <<>>
    /\ resource_stats' = NoStats
    /\ mon_pc' = "unstarted"
    /\ mon_sample' = <<>>
    /\ averages' = <<>>
    /\ progress_counter' = 0
    /\ clock' = 0
    /\ wread' = [w \in Workers |-> 0]
    /\ lock' = 0
    /\ wpc' = [w \in Workers |-> IdleWorker[w].pc]
    /\ wfiles' = [w \in Workers |-> IdleWorker[w].files]
    /\ widx' = [w \in Workers |-> IdleWorker[w].idx]
    /\ wkw' = [w \in Workers |-> IdleWorker[w].kw]
    /\ wmode' = [w \in Workers |-> IdleWorker[w].mode]
    /\ wdata' = [w \in Workers |-> IdleWorker[w].data]
    /\ wpos' = [w \in Workers |-> IdleWorker[w].pos]
    /\ ready' = [w \in Workers |-> IdleWorker[w].ready]
    /\ loaded' = [w \in Workers |-> IdleWorker[w].loaded]
    /\ wfail' = [w \in Workers |-> IdleWorker[w].fail]
    /\ UNCHANGED <<gpus, input_path, kills, ckpt, outputs, mvars, fvars>>

\* lines 505-548: stage 4 on the layout of one document
MTableRecognition ==
    /\ mpc = "loaded"
    /\ m_tables' = TableLayoutPreds(m_layout)
    /\ mpc' = "tables"
    /\ UNCHANGED <<gpus, input_path, run, kills, failing, m_layout, m_lines, m_out,
                   fvars, monvars, ckpt, outputs, lock, progress_counter, clock, wread, ovars, wvars>>

\* line 601: the merge of one document's stage results
MergeDocument ==
    /\ mpc = "tables"
    /\ m_out' = MatchAndMergeBboxes(m_layout, m_lines, m_tables)
    /\ mpc' = "merged"
    /\ UNCHANGED <<gpus, input_path, run, kills, failing, m_layout, m_lines, m_tables,
                   fvars, monvars, ckpt, outputs, lock,
                   progress_counter, clock, wread, ovars, wvars>>

(* ------------------- page range and confidence stages ----------------- *)

\* everything but the variables of this section
pvars == <<gpus, input_path, run, kills, failing, mvars, monvars, ckpt, outputs, lock,
           progress_counter, clock, wread, ovars, wvars>>

NoRet == [raised |-> FALSE, conf |-> None, entry |-> NoEntry]
NoRender == [lowres |-> <<>>, highres |-> <<>>]

\* lines 754-758: main parses --page_range when it is given
FParseRangeStr ==
    /\ fpc = "parse"
    /\ IF f_expr # <<>>
       THEN LET r == ParseRangeStr(f_expr)
            IN  /\ f_range' = IF r.ok THEN Some(r.pages) ELSE None
                /\ fpc' = IF r.ok THEN "load" ELSE "parse_raised"
       ELSE /\ f_range' = None
            /\ fpc' = "load"
    /\ UNCHANGED <<pvars, f_expr, f_last_page, f_images, f_render, f_lines, f_pages,
                   f_ret>>

\* lines 379-380 and 203-216: run_ocr_on_gpu loads the pages of a PDF
\* twice, with dpi=IMAGE_DPI and with dpi=IMAGE_DPI_HIGHRES
FLoadPdf ==
    /\ fpc = "load"
    /\ LET r == LoadPdf(f_last_page, f_range)
       IN  /\ f_images' = r.images
           /\ f_render' =
                 [lowres |-> [k \in 1..Len(r.images) |->
                                 RenderPage(PdfPagePoints, IMAGE_DPI)],
                  highres |-> [k \in 1..Len(r.images) |->
                                  RenderPage(PdfPagePoints, IMAGE_DPI_HIGHRES)]]
           /\ fpc' = IF r.ok THEN "loaded" ELSE "load_raised"
    /\ UNCHANGED <<pvars, f_expr, f_last_page, f_range, f_lines, f_pages, f_ret>>

\* lines 473-485: the recognition results with their page confidences
FRecognize ==
    /\ fpc = "recognize"
    /\ f_pages' = RecPreds(f_lines)
    /\ fpc' = "aggregate"
    /\ UNCHANGED <<pvars, f_expr, f_last_page, f_range, f_images, f_render, f_lines,
                   f_ret>>

\* lines 594-624 and 709-714: the document confidence, the return of
\* run_ocr_on_gpu (reading an unbound doc_conf raises UnboundLocalError) and
\* the entry worker_process hands to update_checkpoint; the word count is
\* not part of this stage
FReturn ==
    /\ fpc = "aggregate"
    /\ LET doc_conf == DocConf(f_pages)
       IN  IF doc_conf = None
           THEN /\ f_ret' = [raised |-> TRUE, conf |-> None,
                             entry |-> ErrorEntry("UnboundLocalError")]
                /\ fpc' = "conf_raised"
           ELSE /\ f_ret' = [raised |-> FALSE, conf |-> doc_conf,
                             entry |-> DoneEntry([wc |-> 0, np |-> Len(f_pages),
                                                  conf |-> doc_conf[1]])]
                /\ fpc' = "conf_returned"
    /\ UNCHANGED <<pvars, f_expr, f_last_page, f_range, f_images, f_render, f_lines,
                   f_pages>>

(* --------------------------- specifications --------------------------- *)

NoMerge ==
    /\ m_layout = <<>>
    /\ m_lines = <<>>
    /\ m_tables = <<>>
    /\ m_out = [pages |-> <<>>, left |-> <<>>]
    /\ mpc = "idle"

NoFn ==
    /\ f_expr = <<>>
    /\ f_last_page = 0
    /\ f_range = None
    /\ f_images = <<>>
    /\ f_render = NoRender
    /\ f_lines = <<>>
    /\ f_pages = <<>>
    /\ f_ret = NoRet
    /\ fpc = "idle"

\* one document of up to MaxPages pages, out of the layout and recognition stages
InitMerge ==
    /\ gpus = <<0>>
    /\ input_path = FileA_pdf
    /\ run = 1
    /\ kills = 0
    /\ failing = {}
    /\ ckpt = AbsentFile
    /\ outputs = {}
    /\ Fresh
    /\ NoFn
    /\ \E n \in 1..MaxPages :
         /\ m_layout \in [1..n -> PageLayouts]
         /\ m_lines \in [1..n -> PageLines]
    /\ m_tables = <<>>
    /\ m_out = [pages |-> <<>>, left |-> <<>>]
    /\ mpc = "loaded"


\* a first run on an empty output directory, one process per distinct GPU
InitClean ==
    /\ gpus \in GpuLists
    /\ \A i, j \in 1..Len(gpus) : gpus[i] = gpus[j] => i = j
    /\ input_path \in InputPaths
    /\ run = 1
    /\ kills = 0
    /\ failing \in SUBSET SupportedFiles
    /\ ckpt = AbsentFile
    /\ outputs = {}
    /\ Fresh
    /\ NoMerge
    /\ NoFn

\* one worker's document at the page-loading stage, with a --page_range
\* argument and a PDF, or at the recognition stage, with its pages' lines
InitFn ==
    /\ gpus = <<0>>
    /\ input_path = FileA_pdf
    /\ run = 1
    /\ kills = 0
    /\ failing = {}
    /\ ckpt = AbsentFile
    /\ outputs = {}
    /\ Fresh
    /\ NoMerge
    /\ f_range = None
    /\ f_images = <<>>
    /\ f_render = NoRender
    /\ f_pages = <<>>
    /\ f_ret = NoRet
    /\ \/ /\ fpc = "parse"
          /\ f_expr \in RangeExprs
          /\ f_last_page \in PdfPageCounts
          /\ f_lines = <<>>
       \/ /\ fpc = "recognize"
          /\ f_expr = <<>>
          /\ f_last_page = 0
          /\ f_lines \in DocumentLines

Init ==
    /\ gpus \in GpuLists
    /\ input_path \in InputPaths
    /\ run = 1
    /\ kills = 0
    /\ failing \in SUBSET SupportedFiles
    /\ ckpt \in {AbsentFile, TruncatedFile}
    /\ outputs = {}
    /\ Fresh
    /\ NoMerge
    /\ NoFn

Next ==
    \/ OReadCheckpoint
    \/ ODiscover
    \/ OSpawn
    \/ OWait
    \/ OPoll
    \/ OJoin
    \/ OSummary
    \/ OAverages
    \/ \E w \in Workers : WInitWorker(w)
    \/ \E w \in Workers : WSetReady(w)
    \/ \E w \in Workers : WRunOcr(w)
    \/ \E w \in Workers : UAcquire(w)
    \/ \E w \in Workers : URead(w)
    \/ \E w \in Workers : UOpen(w)
    \/ \E w \in Workers : UWrite(w)
    \/ \E w \in Workers : URelease(w)
    \/ \E w \in Workers : WIncrementRead(w)
    \/ \E w \in Workers : WIncrement(w)
    \/ Restart

NextKill == Next \/ (\E w \in Workers : Kill(w))

\* one start of the program: Next without Restart
NextRun ==
    \/ OReadCheckpoint
    \/ ODiscover
    \/ OSpawn
    \/ OWait
    \/ OPoll
    \/ OJoin
    \/ OSummary
    \/ OAverages
    \/ \E w \in Workers : WInitWorker(w)
    \/ \E w \in Workers : WSetReady(w)
    \/ \E w \in Workers : WRunOcr(w)
    \/ \E w \in Workers : UAcquire(w)
    \/ \E w \in Workers : URead(w)
    \/ \E w \in Workers : UOpen(w)
    \/ \E w \in Workers : UWrite(w)
    \/ \E w \in Workers : URelease(w)
    \/ \E w \in Workers : WIncrementRead(w)
    \/ \E w \in Workers : WIncrement(w)

\* the steps of the main process
MainStep ==
    OReadCheckpoint \/ ODiscover \/ OSpawn \/ OWait \/ OPoll \/ OJoin \/ OSummary
    \/ OAverages

\* the steps of the worker process of the k-th entry of gpu_ids
WorkerStep(k) ==
    /\ k \in Workers
    /\ \/ WInitWorker(k) \/ WSetReady(k) \/ WRunOcr(k)
       \/ UAcquire(k) \/ URead(k) \/ UOpen(k) \/ UWrite(k) \/ URelease(k)
       \/ WIncrementRead(k) \/ WIncrement(k)

\* the operating system gives every process that can run a turn
Scheduling == WF_vars(MainStep) /\ WF_vars(WorkerStep(1)) /\ WF_vars(WorkerStep(2))

\* runs that nothing interrupts
Spec == Init /\ [][Next]_vars

\* runs in which worker processes may be terminated from outside
SpecKill == InitClean /\ [][NextKill]_vars

\* a first run on an empty output directory that nothing interrupts
SpecRun == InitClean /\ [][NextRun]_vars

\* a run on one or two GPUs on which no pipeline raises, with the monitor
\* thread of the main process
InitMon == InitClean /\ failing = {}

NextMon == NextRun \/ MonSample \/ MonSampleRaises \/ MonUpdate \/ MonSleep

SpecMon == InitMon /\ [][NextMon]_vars

\* the same runs, with every process scheduled
SpecLive == InitClean /\ [][NextRun]_vars /\ Scheduling

NextMerge == MTableRecognition \/ MergeDocument

NextFn ==
    \/ FParseRangeStr
    \/ FLoadPdf
    \/ FRecognize
    \/ FReturn

\* the page-range and confidence stages on every input of the bounded sets
SpecFn == InitFn /\ [][NextFn]_vars

\* the merge engine on every document of the bounded input sets
SpecMerge == InitMerge /\ [][NextMerge]_vars

(* ------------------------------- claims ------------------------------- *)

Range(seq) == {seq[i] : i \in 1..Len(seq)}

\* the identifiers whose update_checkpoint call of worker w has returned
ReturnedIds(w) ==
    {Identifier(wfiles[w][i], input_path) :
        i \in {j \in 1..Len(wfiles[w]) : j < widx[w] \/ (j = widx[w] /\ AtIncrement(w))}}

AttemptedIds == UNION {ReturnedIds(w) : w \in Workers}

MainHasRead == opc \notin {"start", "raised"}
MainHasFiltered == opc \notin {"start", "raised", "discover"}

IsComplete(entry) ==
    /\ entry.status \in {"done", "error"}
    /\ entry.tt # None
    /\ entry.ts = run

\* C1: whenever no update_checkpoint call is in progress, the checkpoint
\* file parses and holds exactly one entry for every identifier that was in
\* it at startup or whose update has returned, the latter complete and the
\* former untouched: no update of one worker is lost to another's rewrite.
C1_NoUpdateLost ==
    (MainHasRead /\ lock = 0) =>
        /\ ~FileIsCorrupt(ckpt)
        /\ Keys(FileData(ckpt)) = Keys(checkpoint_data) \cup AttemptedIds
        /\ Len(FileData(ckpt)) = Cardinality(Keys(FileData(ckpt)))
        /\ \A k \in AttemptedIds : IsComplete(Get(FileData(ckpt), k))
        /\ \A k \in Keys(checkpoint_data) \ AttemptedIds :
              Get(FileData(ckpt), k) = Get(checkpoint_data, k)

\* two workers have each returned from updates with different identifiers
C1_Witness ==
    /\ Len(gpus) = 2
    /\ \A w \in Workers : wpc[w] = "exited"
    /\ \E k1 \in ReturnedIds(1) : \E k2 \in ReturnedIds(2) : k1 # k2
    /\ Len(FileData(ckpt)) = 2
    /\ lock = 0

\* the status the checkpoint should show for file i of worker w
ExpectedStatus(w, i) == IF PipelineRaises(w, wfiles[w][i]) THEN "error" ELSE "done"

\* no GPU id is named twice on the command line
GpusDistinct == \A i, j \in 1..Len(gpus) : gpus[i] = gpus[j] => i = j

\* C2: a worker attempts every document of its list whatever raises; once
\* the run is over the checkpoint shows error (with message and elapsed
\* time) for exactly the documents whose pipeline raised and done for the
\* others, and no worker past model loading has crashed (stated for the
\* runs with one worker per GPU).
C2_FaultIsolation ==
    /\ \A w \in Workers : wpc[w] = "crashed" => wfail[w] = "oom"
    /\ (opc = "done" /\ GpusDistinct /\ ~FileIsCorrupt(ckpt)) =>
          \A w \in Workers : wpc[w] = "exited" =>
             /\ widx[w] = Len(wfiles[w]) + 1
             /\ \A i \in 1..Len(wfiles[w]) :
                   LET k == Identifier(wfiles[w][i], input_path)
                   IN  /\ k \in Keys(FileData(ckpt))
                       /\ Get(FileData(ckpt), k).status = ExpectedStatus(w, i)
                       /\ ExpectedStatus(w, i) = "error" =>
                             /\ Get(FileData(ckpt), k).error # None
                             /\ Get(FileData(ckpt), k).tt # None

\* C2 restricted to work lists whose documents have pairwise distinct
\* identifiers that no other worker writes
DistinctIdsInRun ==
    \A w1, w2 \in Workers : \A i \in 1..Len(wfiles[w1]) : \A j \in 1..Len(wfiles[w2]) :
        Identifier(wfiles[w1][i], input_path) = Identifier(wfiles[w2][j], input_path)
            => (w1 = w2 /\ i = j)
C2_FaultIsolationDistinctIds == DistinctIdsInRun => C2_FaultIsolation

\* C3: the orchestrator never waits forever: whenever a worker has failed
\* while loading its models, the run is over or some process can still
\* take a step.
C3_NeverWaitsForever ==
    (\E w \in Workers : wfail[w] = "oom") => (opc = "done" \/ ENABLED Next)

\* C4: every worker that is past model loading, whether the load succeeded
\* or failed, has set its readiness event exactly once, and no worker sets
\* it before its load has ended.
C4_ReadySetOnce ==
    \A w \in Workers :
        /\ ready[w] <= 1
        /\ wpc[w] \in {"unstarted", "init", "set_ready"} => ready[w] = 0
        /\ wpc[w] \notin {"unstarted", "init", "set_ready"} => ready[w] = 1

\* C5: whatever step of update_checkpoint a worker is terminated at, a
\* process that reads the checkpoint file when no update is in progress
\* finds valid JSON.
C5_FileSurvivesKill == (lock = 0) => ~FileIsCorrupt(ckpt)

\* the documents main discovers: the supported visible files below the
\* input directory, or the single input file when it is supported
Discovered ==
    IF IsDir(input_path)
    THEN {p \in Range(WalkOrder) : Basename(p)[1] # "." /\ GuessType(p) \in SupportedTypes}
    ELSE {p \in {input_path} : GuessType(p) \in SupportedTypes}

HasStatus(data, k, status) == k \in Keys(data) /\ Get(data, k).status = status

\* C6: a run started after every discovered document has status done in
\* the checkpoint assigns no document, spawns no worker and leaves the
\* checkpoint with the entries it had.
C6_SecondRunDoesNothing ==
    (run >= 2 /\ MainHasFiltered /\ Discovered # {}
        /\ \A p \in Discovered : HasStatus(checkpoint_data, Identifier(p, input_path), "done"))
    => /\ opc = "returned"
       /\ file_paths = <<>>
       /\ \A w \in Workers : wpc[w] = "unstarted" /\ wfiles[w] = <<>>
       /\ progress_counter = 0
       /\ ~FileIsCorrupt(ckpt)
       /\ FileData(ckpt) = checkpoint_data

\* the second run in directory mode has returned with both identifiers done
C6_Witness ==
    /\ run = 2
    /\ IsDir(input_path)
    /\ opc = "returned"
    /\ Len(checkpoint_data) = 2
    /\ \A p \in Discovered : HasStatus(checkpoint_data, Identifier(p, input_path), "done")

\* C7: a discovered document is left out of the work list exactly when its
\* identifier has status done in the checkpoint read at startup; every
\* other one is in the list of a spawned worker, the entry is the new
\* attempt's outcome when that worker's update has rewritten the file, and
\* the done entries of the documents left out stay as they were.
C7_SkipExactlyDone ==
    MainHasFiltered =>
        /\ \A p \in Discovered :
              (p \notin Range(file_paths))
                  <=> HasStatus(checkpoint_data, Identifier(p, input_path), "done")
        /\ Range(file_paths) \subseteq Discovered
        /\ opc \notin {"spawn", "returned"} =>
              \A p \in Range(file_paths) :
                  \E w \in Workers : wpc[w] # "unstarted" /\ p \in Range(wfiles[w])
        /\ \A w \in Workers : wpc[w] = "u_unlock" =>
              /\ ~FileIsCorrupt(ckpt)
              /\ HasStatus(FileData(ckpt), wkw[w].id, ExpectedStatus(w, widx[w]))
              /\ Get(FileData(ckpt), wkw[w].id) = wkw[w].entry
              /\ wkw[w].entry.ts = run
        /\ lock = 0 =>
              \A p \in Discovered \ Range(file_paths) :
                  LET k == Identifier(p, input_path)
                  IN  /\ ~FileIsCorrupt(ckpt)
                      /\ k \in Keys(FileData(ckpt))
                      /\ Get(FileData(ckpt), k) = Get(checkpoint_data, k)

\* in a second run one document is skipped as done while a worker has just
\* replaced the error entry of another
C7_Witness ==
    /\ run = 2
    /\ \E p \in Discovered : p \notin Range(file_paths)
    /\ \E w \in Workers :
          /\ wpc[w] = "u_unlock"
          /\ HasStatus(checkpoint_data, wkw[w].id, "error")
          /\ Get(FileData(ckpt), wkw[w].id).ts = 2

\* the checkpoint file does not parse and no process has it open for writing
CorruptAtRest == FileIsCorrupt(ckpt) /\ \A w \in Workers : wpc[w] # "u_write"

\* C8: a checkpoint file that does not parse is never changed: main's
\* startup read raises with no worker spawned, update_checkpoint raises
\* where it reads instead of going on to write.
C8_CorruptFileIsFatal ==
    [][CorruptAtRest =>
          /\ ckpt' = ckpt
          /\ (opc = "start" /\ opc' # opc) =>
                (opc' = "raised" /\ \A w \in Workers : wpc'[w] = "unstarted")
          /\ \A w \in Workers :
                (wpc[w] = "u_read" /\ wpc'[w] \notin {"u_read", "killed"}) =>
                    wpc'[w] \in {"u_lock", "crashed"}]_vars

\* a worker has died of the unreadable checkpoint, which is still unreadable
C8_Witness ==
    /\ \E w \in Workers : wpc[w] = "crashed" /\ wfail[w] = "checkpoint"
    /\ FileIsCorrupt(ckpt)
    /\ ckpt.bytes # <<>>

\* the position among the table-labelled boxes of its page (from 0) of box i
TableIndexOnPage(page, i) == Cardinality({j \in 1..(i - 1) : page[j].label \in TableLabels})

\* C9: after the merge every table-labelled box carries the structure
\* recognized from its own crop (same page, same table index on the page,
\* frame equal to the box), and the table queue is empty.
C9_TablesMatchBoxes ==
    mpc = "merged" =>
        /\ m_out.left = <<>>
        /\ \A p \in 1..Len(m_layout) : \A i \in 1..Len(m_layout[p]) :
              m_layout[p][i].label \in TableLabels =>
                 LET tc == m_out.pages[p][i].table_content
                 IN  /\ tc # None
                     /\ tc[1].page = p - 1
                     /\ tc[1].table_idx = TableIndexOnPage(m_layout[p], i)
                     /\ tc[1].adjusted_image_bbox = m_layout[p][i].bbox

\* the center of the line lies strictly inside the rectangle
CenterStrictlyInside(line, rect) ==
    /\ 2 * rect[1] < line.bbox[1] + line.bbox[3]
    /\ line.bbox[1] + line.bbox[3] < 2 * rect[3]
    /\ 2 * rect[2] < line.bbox[2] + line.bbox[4]
    /\ line.bbox[2] + line.bbox[4] < 2 * rect[4]

\* the text lines the merged output attaches to box i of page p
Attached(p, i) ==
    LET tl == m_out.pages[p][i].text_lines
    IN  IF tl = None THEN <<>> ELSE tl[1]

\* C10: after the merge a text line is attached to a non-table box of its
\* page exactly when its center lies strictly inside the box, box by box,
\* the attached lines being in line order.
C10_AttachedIffStrictlyInside ==
    mpc = "merged" =>
        \A p \in 1..Len(m_layout) : \A i \in 1..Len(m_layout[p]) :
            m_layout[p][i].label \notin TableLabels =>
                LET In(line) == CenterStrictlyInside(line, m_layout[p][i].bbox)
                IN  /\ \A j \in 1..Len(m_lines[p]) :
                          (m_lines[p][j] \in Range(Attached(p, i))) <=> In(m_lines[p][j])
                    /\ Attached(p, i) = SelectSeqIdx(m_lines[p], In, 1)

\* one page has a line on the shared edge of two adjacent boxes, attached
\* to neither, and another a line in the overlap of two boxes, attached to both
C10_Witness ==
    /\ mpc = "merged"
    /\ \E p \in 1..Len(m_layout) :
          /\ m_layout[p] = <<BoxLeft, BoxRight>>
          /\ LineOnSharedEdge \in Range(m_lines[p])
          /\ LineOnSharedEdge \notin Range(Attached(p, 1)) \cup Range(Attached(p, 2))
    /\ \E p \in 1..Len(m_layout) :
          /\ m_layout[p] = <<BoxLeft, BoxMiddle>>
          /\ LineInOverlap \in Range(Attached(p, 1)) \cap Range(Attached(p, 2))

\* the confidence stage has ended, by return or by raise
ConfidenceStageEnded == fpc \in {"conf_returned", "conf_raised"}

\* C11: run_ocr_on_gpu returns for every document, the confidence it
\* returns is the one stored in the document's done entry, it is the mean of
\* the page confidences (times the page count it is their sum), and it is
\* 0.0 for a document of zero pages.
C11_DocConfidenceIsMean ==
    ConfidenceStageEnded =>
        /\ ~f_ret.raised
        /\ f_ret.entry.status = "done"
        /\ f_ret.entry.conf = f_ret.conf[1]
        /\ f_pages # <<>> =>
              f_ret.conf[1] * Len(f_pages) =
                  SumSeq([p \in 1..Len(f_pages) |-> f_pages[p].page_confidence])
        /\ f_pages = <<>> => f_ret.conf[1] = 0

\* C11 for the documents of at least one page
C11_DocConfidenceIsMeanWithPages == f_lines # <<>> => C11_DocConfidenceIsMean

\* a document of two pages with different confidences has been aggregated
C11_WithPagesWitness ==
    /\ fpc = "conf_returned"
    /\ Len(f_pages) = 2
    /\ f_pages[1].page_confidence # f_pages[2].page_confidence
    /\ f_ret.entry.conf = 63

\* C12: every recognized page has a page confidence; times the number of
\* lines it is the sum of the lines' confidences, and it is 0.0 for a page
\* without lines.
C12_PageConfidenceIsMean ==
    fpc \in {"aggregate", "conf_returned", "conf_raised"} =>
        /\ Len(f_pages) = Len(f_lines)
        /\ \A p \in 1..Len(f_lines) :
              /\ f_pages[p].page = p
              /\ f_lines[p] = <<>> => f_pages[p].page_confidence = 0
              /\ f_lines[p] # <<>> =>
                    f_pages[p].page_confidence * Len(f_lines[p]) = SumSeq(f_lines[p])

\* a document with a page without lines and a page of two lines, 0.5 and 1.0
C12_Witness ==
    /\ fpc = "aggregate"
    /\ \E p \in 1..Len(f_lines) : f_lines[p] = <<>> /\ f_pages[p].page_confidence = 0
    /\ \E p \in 1..Len(f_lines) : f_lines[p] = <<36, 72>> /\ f_pages[p].page_confidence = 54

\* C13: any two distinct discovered files have distinct identifiers, and no
\* identifier contains a path separator.
C13_IdentifiersDistinct ==
    MainHasFiltered =>
        \A p, q \in Discovered :
            /\ p # q => MainIdentifier(p, input_path) # MainIdentifier(q, input_path)
            /\ "/" \notin Range(MainIdentifier(p, input_path))

\* the part of C13 that holds: no identifier contains a path separator, and
\* files of different base names get different identifiers
C13_FlatIdentifiers ==
    MainHasFiltered =>
        \A p, q \in Discovered :
            /\ "/" \notin Range(MainIdentifier(p, input_path))
            /\ GetNameFromPath(p) # GetNameFromPath(q) =>
                  MainIdentifier(p, input_path) # MainIdentifier(q, input_path)

\* the worker is inside the update_checkpoint call of its current file
InUpdate(w) == wpc[w] \in {"u_lock", "u_read", "u_open", "u_write", "u_unlock"}

\* C14: the key a worker writes for a file is the key main computes for it,
\* in both modes, and main leaves a discovered file out exactly when the
\* checkpoint it read holds a done entry under the key a worker writes for
\* that file.
C14_SameKey ==
    /\ \A w \in Workers :
          InUpdate(w) => wkw[w].id = MainIdentifier(wfiles[w][widx[w]], input_path)
    /\ MainHasFiltered =>
          \A p \in Discovered :
              (p \notin Range(file_paths))
                  <=> HasStatus(checkpoint_data, WorkerIdentifier(p, input_path), "done")

\* the second run on a single file finds the entry the first run's worker
\* wrote for it, and returns
C14_Witness ==
    /\ run = 2
    /\ input_path = FileA_pdf
    /\ opc = "returned"
    /\ HasStatus(checkpoint_data, <<"r", ARROW, "a">>, "done")
    /\ Get(checkpoint_data, <<"r", ARROW, "a">>).ts = 1

\* the page numbers an item of a page-range expression names
Names(item) ==
    CASE item = <<"0">> -> {0}
      [] item = <<"1">> -> {1}
      [] item = <<"3">> -> {3}
      [] item = <<"1", "2">> -> {12}
      [] item = <<"1", "-", "3">> -> {1, 2, 3}
      [] item = <<"2", "-", "2">> -> {2}
      [] item = <<"5", "-", "9">> -> {5, 6, 7, 8, 9}
      [] OTHER -> {}

\* the lists of non-empty items that the expression is the comma-joined text of
ItemLists(expr) ==
    LET WellFormed == {item \in ItemTexts : Names(item) # {}}
    IN  UNION {{t \in [1..n -> WellFormed] : JoinWithComma(t) = expr} : n \in 1..MaxItems}

Ascending(seq) == \A i, j \in 1..Len(seq) : i < j => seq[i] < seq[j]

\* C16: for an expression of integers and inclusive ranges parse_range_str
\* returns a strictly ascending list whose elements are exactly the page
\* numbers its items name, whatever the order, repetition or overlap of the
\* items.
C16_ParseRangeStr ==
    (fpc # "parse" /\ f_expr # <<>>) =>
        \A t \in ItemLists(f_expr) :
            /\ fpc # "parse_raised"
            /\ f_range # None
            /\ Ascending(f_range[1])
            /\ Range(f_range[1]) = UNION {Names(t[k]) : k \in 1..Len(t)}

\* "1,3,5-9" has been parsed to 1,3,5,6,7,8,9
C16_Witness ==
    /\ f_expr = <<"1", ",", "3", ",", "5", "-", "9">>
    /\ f_range = Some(<<1, 3, 5, 6, 7, 8, 9>>)

\* "5-9,3,1-3" has been parsed: out of order and overlapping
C16_WitnessReordered ==
    /\ f_expr = <<"5", "-", "9", ",", "3", ",", "1", "-", "3">>
    /\ f_range = Some(<<1, 2, 3, 5, 6, 7, 8, 9>>)

\* C17: when the page list handed to load_pdf names a page below 1 or above
\* the PDF's page count, load_pdf raises and returns no image.
C17_OutOfRangeRaises ==
    (fpc \in {"loaded", "load_raised"} /\ f_range # None
        /\ \E k \in 1..Len(f_range[1]) : f_range[1][k] < 1 \/ f_range[1][k] > f_last_page)
    => (fpc = "load_raised" /\ f_images = <<>>)

\* load_pdf has raised on a list with a page of the document and a page beyond it
C17_Witness ==
    /\ fpc = "load_raised"
    /\ f_last_page = 3
    /\ f_range = Some(<<1, 3, 12>>)

\* a list within the document is converted to the 0-based pages, in order
C17_WitnessInRange ==
    /\ fpc = "loaded"
    /\ f_last_page = 3
    /\ f_range = Some(<<1, 3>>)
    /\ f_images = <<0, 2>>

\* main is past its spawn loop
Spawned == opc \in {"wait", "poll", "join", "summary", "done", "summary_raised"}

\* how many of the indices 1..m are congruent to k modulo n
ShareOf(k, m, n) == Cardinality({i \in 1..m : ((i - 1) % n) + 1 = k})

\* the work lists are the round-robin partition of the pending list
RoundRobinPartition ==
    LET n == Len(gpus)
        m == Len(file_paths)
    IN  /\ \A k \in Workers :
              /\ Len(wfiles[k]) = ShareOf(k, m, n)
              /\ \A j \in 1..Len(wfiles[k]) : wfiles[k][j] = file_paths[(j - 1) * n + k]
              /\ (wfiles[k] # <<>>) <=> (wpc[k] # "unstarted")
        /\ \A k1, k2 \in Workers :
              /\ k1 # k2 => Range(wfiles[k1]) \cap Range(wfiles[k2]) = {}
              /\ Len(wfiles[k1]) - Len(wfiles[k2]) \in {-1, 0, 1}
        /\ UNION {Range(wfiles[k]) : k \in Workers} = Range(file_paths)
        /\ \A i \in 1..m : file_paths[i] \in Range(wfiles[((i - 1) % n) + 1])

\* C15: with distinct GPU ids, once the workers are spawned the work lists
\* are the round-robin partition of the pending list (file i to GPU i mod n,
\* disjoint, covering, sizes within one, one process per non-empty list),
\* and no step changes a work list afterwards.
C15_RoundRobinStatic ==
    [][GpusDistinct =>
          /\ Spawned' => RoundRobinPartition'
          /\ Spawned => (wfiles' = wfiles /\ file_paths' = file_paths)]_vars

\* three pending files on two GPUs: two for the first, one for the second,
\* and both workers have finished their lists
C15_Witness ==
    /\ gpus = <<0, 1>>
    /\ file_paths = <<FileA_pdf, FileA_jpg, FileB_pdf>>
    /\ wfiles = <<(<<FileA_pdf, FileB_pdf>>), (<<FileA_jpg>>)>>
    /\ \A w \in Workers : wpc[w] = "exited"
    /\ opc = "done"

\* no process is in the middle of rewriting the checkpoint file
FileAtRest == \A w \in Workers : wpc[w] # "u_write"

\* the visible files of the input whose type is unknown or not accepted
Unsupported ==
    IF IsDir(input_path)
    THEN {p \in Range(WalkOrder) : Basename(p)[1] # "." /\ GuessType(p) \notin SupportedTypes}
    ELSE {p \in {input_path} : GuessType(p) \notin SupportedTypes}

RunIsOver == opc = "done" /\ \A w \in Workers : wpc[w] \in {"unstarted", "exited"}

\* C18: in directory mode an unsupported file is in no work list and gets
\* no checkpoint entry, while every other discovered file is assigned and,
\* when the run is over, has its entry; in single-file mode the run returns
\* with no worker spawned, no checkpoint file and no output written.
C18_UnsupportedByMode ==
    (MainHasFiltered /\ Unsupported # {}) =>
        IF IsDir(input_path)
        THEN /\ \A p \in Unsupported :
                   /\ p \notin Range(file_paths)
                   /\ \A w \in Workers : p \notin Range(wfiles[w])
                   /\ FileAtRest => Identifier(p, input_path) \notin Keys(FileData(ckpt))
             /\ Discovered \subseteq Range(file_paths)
             /\ Spawned => \A p \in Discovered : \E w \in Workers : p \in Range(wfiles[w])
             /\ RunIsOver =>
                   \A p \in Discovered : Identifier(p, input_path) \in Keys(FileData(ckpt))
        ELSE /\ opc = "returned"
             /\ file_paths = <<>>
             /\ \A w \in Workers : wpc[w] = "unstarted"
             /\ ckpt = AbsentFile
             /\ outputs = {}

\* a run over the directory with the unsupported file is over: the others
\* have their entries, the unsupported file has none
C18_Witness ==
    /\ IsDir(input_path)
    /\ FileN_txt \in Unsupported
    /\ RunIsOver
    /\ Keys(FileData(ckpt)) = {<<"a">>, <<"d", ARROW, "b">>}

\* the run on the single unsupported file has returned
C18_WitnessSingleFile ==
    /\ input_path = FileN_txt
    /\ opc = "returned"
    /\ ckpt = AbsentFile

\* init_worker has ended in worker w without all four predictors loaded
LoadFailed(w) == wpc[w] \notin {"unstarted", "init"} /\ loaded[w] # "all"

\* C19: a worker is at a document (in the pipeline, in update_checkpoint or
\* at the counter) only with all four models loaded, and a worker whose load
\* failed ends without having processed a document or called update_checkpoint.
C19_LoadBeforeProcessing ==
    \A w \in Workers :
        /\ (wpc[w] = "run" \/ InUpdate(w) \/ AtIncrement(w)) => loaded[w] = "all"
        /\ LoadFailed(w) =>
              /\ wpc[w] \in {"set_ready", "exited", "crashed"}
              /\ widx[w] = 1
              /\ wkw[w] = NoKw

\* the part of C19 that holds: the models are loaded in init_worker only,
\* once per process, before the first document and never per document
C19_LoadedOncePerProcess ==
    [][\A w \in Workers :
          /\ loaded'[w] # loaded[w] => (wpc[w] = "init" /\ widx[w] = 1)
          /\ wpc'[w] = "init" => wpc[w] \in {"unstarted", "init"}]_vars

\* the documents of worker w whose checkpoint entry the worker has written
Recorded(w) ==
    {j \in 1..Len(wfiles[w]) :
        j < widx[w] \/ (j = widx[w] /\ wpc[w] \in {"u_unlock", "incr", "incr_write"})}

\* C20: a worker is at one document of its list at a time, in list order:
\* whenever the checkpoint file is at rest it holds one entry of this run,
\* done or error, for each document before the worker's current one and,
\* identifiers being distinct, none for the documents still to come; a
\* worker starts a pipeline with no update pending; and a done entry is
\* handed to update_checkpoint only with the document's two output files written.
C20_SequentialWithEntry ==
    \A w \in Workers :
        /\ widx[w] \in 1..(Len(wfiles[w]) + 1)
        /\ wpc[w] = "run" => (lock # w /\ wdata[w] = <<>>)
        /\ (InUpdate(w) /\ wkw[w].entry.status = "done") => wkw[w].id \in outputs
        /\ wpc[w] = "u_unlock" => Get(FileData(ckpt), wkw[w].id) = wkw[w].entry
        /\ FileAtRest =>
              /\ Len(FileData(ckpt)) = Cardinality(Keys(FileData(ckpt)))
              /\ \A j \in Recorded(w) :
                    LET k == Identifier(wfiles[w][j], input_path)
                    IN  /\ k \in Keys(FileData(ckpt))
                        /\ IsComplete(Get(FileData(ckpt), k))
                        /\ Get(FileData(ckpt), k).status = "done" => k \in outputs
              /\ DistinctIdsInRun =>
                    \A j \in (1..Len(wfiles[w])) \ Recorded(w) :
                        Identifier(wfiles[w][j], input_path) \notin Keys(FileData(ckpt))

\* the first worker starts the pipeline of its second document with the
\* error entry of its first one in the file, and the second worker's
\* document is done with its output files written
C20_Witness ==
    /\ gpus = <<0, 1>>
    /\ wfiles[1] = <<FileA_pdf, FileB_pdf>>
    /\ wpc[1] = "run" /\ widx[1] = 2
    /\ wpc[2] = "init"
    /\ HasStatus(FileData(ckpt), <<"a">>, "error")

\* a worker hands a done entry to update_checkpoint after the output files
C20_WitnessDone ==
    \E w \in Workers :
        /\ wpc[w] = "u_lock" /\ widx[w] = 2
        /\ wkw[w].entry.status = "done"
        /\ wkw[w].id \in outputs

\* new is old with the entry of k set to v and nothing else changed
OnlyEntryChanged(old, new, k, v) ==
    /\ Keys(new) = Keys(old) \cup {k}
    /\ Len(new) = Cardinality(Keys(new))
    /\ Get(new, k) = v
    /\ \A other \in Keys(old) \ {k} : Get(new, other) = Get(old, other)

\* C21: a worker is between the read and the end of the rewrite of
\* update_checkpoint only as holder of the lock, and only the holder changes
\* the file; the dict it is about to write is the file it read with the
\* entry of its identifier set to the new entry as a whole and every other
\* entry as it was, and the file it leaves is that dict.
C21_OnlyOwnEntryChanges ==
    [][\A w \in Workers :
          /\ wpc[w] \in {"u_read", "u_open", "u_write", "u_unlock"} => lock = w
          /\ (lock = w /\ ckpt' # ckpt) => wpc[w] \in {"u_open", "u_write"}
          /\ wpc[w] = "u_open" =>
                OnlyEntryChanged(FileData(ckpt), wdata[w], wkw[w].id, wkw[w].entry)
          /\ (wpc[w] = "u_unlock" /\ wpc'[w] # "u_unlock") =>
                (~FileIsCorrupt(ckpt) /\ FileData(ckpt) = wdata[w] /\ ckpt' = ckpt)]_vars

\* a worker has rewritten the file with its done entry in the place of
\* another document's error entry of the same identifier, next to the
\* untouched entry of a third document
C21_Witness ==
    \E w \in Workers :
        /\ wpc[w] = "incr"
        /\ wkw[w].id = <<"a">>
        /\ wfiles[w][widx[w]] = FileA_jpg
        /\ FileA_pdf \in failing
        /\ HasStatus(FileData(ckpt), <<"a">>, "done")
        /\ <<"d", ARROW, "b">> \in Keys(FileData(ckpt))
        /\ Len(FileData(ckpt)) = 2

\* the number of table-labelled boxes of a page
TablesOnPage(page) == Cardinality({j \in 1..Len(page) : page[j].label \in TableLabels})

RECURSIVE TablesBefore(_)
\* the number of table-labelled boxes on the pages before page p
TablesBefore(p) == IF p <= 1 THEN 0 ELSE TablesBefore(p - 1) + TablesOnPage(m_layout[p - 1])

\* the position (from 1) in the batch of the crop of table box i of page p
CropIndex(p, i) == TablesBefore(p) + TableIndexOnPage(m_layout[p], i) + 1

\* the texts of the lines of page p whose center is strictly inside rect,
\* in line order, joined by single spaces
ExpectedCellText(p, rect) ==
    LET In(line) == CenterStrictlyInside(line, rect)
        hits == SelectSeqIdx(m_lines[p], In, 1)
    IN  JoinWithSpace([j \in 1..Len(hits) |-> hits[j].text])

\* C22: after the merge every table-labelled box carries the cells stage 4
\* recognized for its crop, each with a text field equal to the space-joined
\* texts of the page's lines centered strictly inside the cell's rebased
\* rectangle, the empty string when there is none.
C22_CellTexts ==
    mpc = "merged" =>
        \A p \in 1..Len(m_layout) : \A i \in 1..Len(m_layout[p]) :
            m_layout[p][i].label \in TableLabels =>
                LET tc == m_out.pages[p][i].table_content
                    own == m_tables[CropIndex(p, i)]
                IN  /\ tc # None
                    /\ Len(tc[1].cells) = Len(own.cells)
                    /\ \A c \in 1..Len(own.cells) :
                          /\ tc[1].cells[c].adjusted_bbox = own.cells[c].adjusted_bbox
                          /\ tc[1].cells[c].text =
                                Some(ExpectedCellText(p, own.cells[c].adjusted_bbox))

\* every page that has a table-labelled box has a text line
TablePagesHaveLines ==
    \A p \in 1..Len(m_layout) : TablesOnPage(m_layout[p]) > 0 => m_lines[p] # <<>>

\* C22 for the documents whose pages with tables all have text lines
C22_CellTextsOnPagesWithLines == TablePagesHaveLines => C22_CellTexts

\* a table whose left cell got two lines, joined in line order, and whose
\* right cell got the empty string
C22_WithLinesWitness ==
    /\ mpc = "merged"
    /\ TablePagesHaveLines
    /\ \E p \in 1..Len(m_layout) :
          /\ m_layout[p] = <<BoxTable>>
          /\ m_out.pages[p][1].table_content[1].cells[1].text = Some(<<"d", " ", "e">>)
          /\ m_out.pages[p][1].table_content[1].cells[2].text = Some(<<>>)

\* the pairs <<page, table index>> (both from 0) of the crops, in batch order
CropPairs ==
    Flatten([p \in 1..Len(m_layout) |->
                [t \in 1..TablesOnPage(m_layout[p]) |-> <<p - 1, t - 1>>]])

\* box moved by the top-left corner of origin
Translated(box, origin) ==
    <<box[1] + origin[1], box[2] + origin[2], box[3] + origin[1], box[4] + origin[2]>>

SameSize(a, b) == a[3] - a[1] = b[3] - b[1] /\ a[4] - a[2] = b[4] - b[2]

\* C23: stage 4 returns one structure per crop, the i-th one carrying the
\* page and within-page index of the i-th crop (both within range), and its
\* frame, cells, rows and columns are moved by the top-left corner of that
\* crop's layout box, each keeping its width and height.
C23_BatchAttribution ==
    mpc \in {"tables", "merged"} =>
        /\ Len(m_tables) = Len(CropPairs)
        /\ \A n \in 1..Len(m_tables) :
              LET t == m_tables[n]
                  page == m_layout[CropPairs[n][1] + 1]
                  origin == TableBboxesOfPage(page)[CropPairs[n][2] + 1]
                  Moved(parts) ==
                      \A k \in 1..Len(parts) :
                          /\ parts[k].adjusted_bbox = Translated(parts[k].bbox, origin)
                          /\ SameSize(parts[k].adjusted_bbox, parts[k].bbox)
              IN  /\ t.page = CropPairs[n][1]
                  /\ t.table_idx = CropPairs[n][2]
                  /\ t.page < Len(m_layout)
                  /\ t.table_idx < TablesOnPage(page)
                  /\ t.adjusted_image_bbox = origin
                  /\ Moved(t.cells) /\ Moved(t.rows) /\ Moved(t.cols)

\* a document of three pages with one table on the first, none on the
\* second and two on the third: the third structure is the second table of page 2
C23_Witness ==
    /\ mpc = "tables"
    /\ Len(m_layout) = 3
    /\ TablesOnPage(m_layout[1]) = 1
    /\ TablesOnPage(m_layout[2]) = 0
    /\ Len(m_tables) = 3
    /\ m_tables[3].page = 2 /\ m_tables[3].table_idx = 1
    /\ m_tables[3].cells[2].adjusted_bbox = <<4, 4, 8, 8>>

\* the first and the last page have no table, the second has one
C23_WitnessOuterPagesEmpty ==
    /\ mpc = "tables"
    /\ Len(m_layout) = 3
    /\ TablesOnPage(m_layout[1]) = 0
    /\ TablesOnPage(m_layout[3]) = 0
    /\ Len(m_tables) = 1
    /\ m_tables[1].page = 1

\* C24: the low-resolution list of a loaded PDF is rendered at 96 DPI and
\* the high-resolution list at 192 DPI, so every high-resolution image has
\* twice the width and height of the low-resolution image of the same page.
C24_HighresIsTwiceLowres ==
    fpc = "loaded" =>
        /\ Len(f_render.lowres) = Len(f_images)
        /\ Len(f_render.highres) = Len(f_images)
        /\ \A k \in 1..Len(f_images) : \A axis \in 1..2 :
              /\ f_render.lowres[k][axis] * 72 = PdfPagePoints[axis] * 96
              /\ f_render.highres[k][axis] * 72 = PdfPagePoints[axis] * 192
              /\ f_render.highres[k][axis] = 2 * f_render.lowres[k][axis]

\* both lists have one image per loaded page, those of the low-resolution
\* list at 96 DPI
C24_OneImagePerPage ==
    fpc = "loaded" =>
        /\ Len(f_render.lowres) = Len(f_images)
        /\ Len(f_render.highres) = Len(f_images)
        /\ \A k \in 1..Len(f_images) :
              f_render.lowres[k] = <<816, 1056>>

\* C29: with a page-range expression that parse_range_str accepts, load_pdf
\* returns exactly the parsed pages (0-based), in ascending order, one image
\* per parsed page; an expression that parses to no page yields no image.
C29_LoadsExactlyParsedPages ==
    (fpc = "loaded" /\ f_expr # <<>>) =>
        /\ f_range # None
        /\ Len(f_images) = Len(f_range[1])
        /\ \A k \in 1..Len(f_images) : f_images[k] = f_range[1][k] - 1
        /\ Ascending(f_images)

\* C29 for the expressions that parse to at least one page
C29_LoadsParsedPagesWhenSome ==
    (f_range # None /\ f_range[1] # <<>>) => C29_LoadsExactlyParsedPages

\* "1,3,5-9" on a PDF of nine pages: seven images
C29_WhenSomeWitness ==
    /\ fpc = "loaded"
    /\ f_expr = <<"1", ",", "3", ",", "5", "-", "9">>
    /\ f_last_page = 9
    /\ f_images = <<0, 2, 4, 5, 6, 7, 8>>

\* how many update_checkpoint calls of a worker have returned in this run
UpdatesReturned(w) == (widx[w] - 1) + (IF AtIncrement(w) THEN 1 ELSE 0)

\* the sum of f over the worker processes
Total(f) == SumSeq([w \in 1..Len(gpus) |-> f[w]])

CounterInvariant ==
    /\ progress_counter <= Total([w \in Workers |-> UpdatesReturned(w)])
    /\ progress_counter = Total([w \in Workers |-> widx[w] - 1])
    /\ last_val <= progress_counter
    /\ \A w \in Workers :
          /\ clock = w <=> wpc[w] = "incr_write"
          /\ (AtIncrement(w) /\ FileAtRest) =>
                /\ wkw[w].id \in Keys(FileData(ckpt))
                /\ IsComplete(Get(FileData(ckpt), wkw[w].id))
    /\ (\A w \in Workers : wpc[w] \in {"unstarted", "exited"}) =>
          progress_counter = Total([w \in Workers |-> Len(wfiles[w])])

CounterStep ==
    /\ last_val' >= last_val
    /\ progress_counter' # progress_counter =>
          \E w \in Workers :
              /\ wpc[w] = "incr_write"
              /\ clock = w
              /\ progress_counter' = progress_counter + 1
              /\ widx'[w] = widx[w] + 1
              /\ \A v \in Workers \ {w} : widx'[v] = widx[v]

\* C25: the progress counter goes up by one, under its lock, once per
\* document of a worker's list and after that document's update_checkpoint
\* call has returned with the entry in the file: it never exceeds the
\* number of updates returned in the run, it equals the number of
\* documents the workers are past (no increment is lost), main's readings
\* never decrease, and with every worker through its list it equals the
\* number of documents assigned.
C25_ProgressCounter == [](CounterInvariant) /\ [][CounterStep]_vars

\* two workers are at the increment together, one holding the lock with
\* its read done and the other waiting for the lock
C25_Witness ==
    /\ Len(gpus) = 2
    /\ wpc[1] = "incr_write"
    /\ wpc[2] = "incr"
    /\ clock = 1

\* both workers are through their lists and main has read the final value
C25_WitnessFinal ==
    /\ Len(gpus) = 2
    /\ \A w \in Workers : wpc[w] = "exited"
    /\ opc = "done"
    /\ last_val = progress_counter
    /\ progress_counter = Len(file_paths)
    /\ progress_counter >= 2

\* the shape of an entry by its status
WellShaped(entry) ==
    /\ entry.status \in {"done", "error"}
    /\ entry.status = "done" =>
          (entry.error = None /\ entry.wc # None /\ entry.np # None /\ entry.tt # None)
    /\ entry.status = "error" =>
          (entry.error # None /\ entry.tt # None /\ entry.wc = None /\ entry.np = None)

\* C28: every entry a worker hands to update_checkpoint, and every entry of
\* the file, has status done or error; a done entry has no error and has a
\* word count, a page count and a time; an error entry has a message and a
\* time and neither count. So the sums of the final summary over the done
\* entries without error meet no null: the summary raises only on a file
\* that does not parse.
C28_EntryShapes ==
    /\ \A w \in Workers : InUpdate(w) => WellShaped(wkw[w].entry)
    /\ (FileAtRest /\ ~FileIsCorrupt(ckpt)) =>
          \A i \in 1..Len(FileData(ckpt)) : WellShaped(FileData(ckpt)[i][2])
    /\ summary # <<>> => ~summary[1].raised
    /\ opc = "summary_raised" => FileIsCorrupt(ckpt)

\* the summary was computed over a done entry and an error entry
C28_Witness ==
    /\ opc = "done"
    /\ summary # <<>>
    /\ \E k \in summary[1].keys : HasStatus(FileData(ckpt), k, "done")
    /\ \E k \in summary[1].keys : HasStatus(FileData(ckpt), k, "error")
    /\ summary[1].total_pages = 2
    /\ summary[1].total_time = 1
    /\ summary[1].word_count = 4

\* the worker process of an entry of gpu_ids has ended or was never started
Terminated(w) == wpc[w] \in {"unstarted", "exited", "crashed", "killed"}

SummaryAfterWorkers ==
    /\ opc \in {"summary", "done", "summary_raised"} => \A w \in Workers : Terminated(w)
    /\ summary # <<>> =>
          /\ \A w \in Workers : Terminated(w)
          /\ summary[1].keys = Keys(FileData(ckpt))
          /\ AttemptedIds \subseteq summary[1].keys
    /\ (opc = "done" /\ \E w \in Workers : widx[w] > 1) => summary # <<>>

\* C26: main is at the summary only with every worker process ended, and
\* the summary it computes is over the file as the workers left it, with
\* the entry of every document attempted in the run; and once the workers
\* are spawned, unless a model load raises out of init_worker, every
\* worker ends and main gets through the summary to its end.
C26_SummaryAndTermination ==
    /\ []SummaryAfterWorkers
    /\ Spawned ~> ((opc = "done" /\ \A w \in Workers : Terminated(w))
                      \/ \E w \in Workers : wfail[w] = "oom")

\* main is through the summary of a run in which two workers, neither with
\* a failed load, each wrote an entry and ended
C26_Witness ==
    /\ opc = "done"
    /\ Len(gpus) = 2
    /\ \A w \in Workers : wpc[w] = "exited" /\ loaded[w] = "all" /\ widx[w] > 1
    /\ summary # <<>>
    /\ Cardinality(summary[1].keys) = 2

\* the workers whose list holds a document
WorkersOf(path) == {w \in Workers : path \in Range(wfiles[w])}

OneWorkerPerDocument ==
    Spawned =>
        /\ \A i \in 1..Len(file_paths) : Cardinality(WorkersOf(file_paths[i])) = 1
        /\ Total([w \in Workers |-> Len(wfiles[w])]) = Len(file_paths)
        /\ progress_counter <= Len(file_paths)
        /\ RunIsOver => progress_counter = Len(file_paths)

\* C27: once the workers are spawned every pending document is in the list
\* of exactly one worker process, the lists together are as long as the
\* list of pending documents, and the progress counter never exceeds that
\* length and equals it when the run is over, whatever the GPU id list.
C27_OneWorkerPerDocument == OneWorkerPerDocument

\* the same for the GPU id lists that name no id twice
C27_OneWorkerPerDocumentDistinctGpus == GpusDistinct => OneWorkerPerDocument

\* a run with two GPUs is over with every pending document counted once
C27_DistinctGpusWitness ==
    /\ RunIsOver
    /\ Len(gpus) = 2
    /\ GpusDistinct
    /\ Len(file_paths) = 3
    /\ progress_counter = 3

\* the position of a statement of lines 84-91 in the loop body, 0 for a
\* position of the thread outside them
StatementIndex(pc) ==
    IF \E j \in 1..Len(MonitorStatements) : MonitorStatements[j] = pc
    THEN CHOOSE j \in 1..Len(MonitorStatements) : MonitorStatements[j] = pc
    ELSE 0

BetweenSamples == mon_pc \in {"unstarted", "sample", "sleep", "stopped"}

CountFields == {"cpu_count", "ram_count", "gpu_util_count", "gpu_mem_count"}

AccumulatorInvariant ==
    /\ mon_pc = "unstarted" => resource_stats = NoStats
    /\ BetweenSamples =>
          \A c \in CountFields : resource_stats[c] = resource_stats.cpu_count
    /\ \A c \in CountFields :
          resource_stats[c] = resource_stats.gpu_mem_count
              + (IF 0 < StatementIndex(c) /\ StatementIndex(c) < StatementIndex(mon_pc)
                 THEN 1 ELSE 0)
    /\ averages # <<>> =>
          /\ opc \in {"done", "returned"}
          /\ \A w \in Workers : Terminated(w)
          /\ None \notin {averages[1].cpu, averages[1].ram, averages[1].gpu_util,
                          averages[1].gpu_mem}

AccumulatorStep ==
    /\ resource_stats' # resource_stats =>
          /\ StatementIndex(mon_pc) > 0
          /\ mon_pc' = NextStatement(mon_pc)
          /\ resource_stats' = [resource_stats EXCEPT
                                  ![mon_pc] = @ + Amount(mon_pc, mon_sample[1])]
          /\ UNCHANGED <<ovars, wvars, progress_counter, ckpt>>
    /\ (mon_pc = "sample" /\ mon_pc' = "stopped") => resource_stats' = resource_stats
    /\ (mon_pc = "sleep" /\ mon_pc' = "sample") =>
          \A c \in CountFields : resource_stats[c] = resource_stats.cpu_count
    /\ averages' # averages =>
          /\ resource_stats.cpu_count = 0 => averages'[1].cpu = Some(0)
          /\ resource_stats.ram_count = 0 => averages'[1].ram = Some(0)
          /\ resource_stats.gpu_util_count = 0 => averages'[1].gpu_util = Some(0)
          /\ resource_stats.gpu_mem_count = 0 => averages'[1].gpu_mem = Some(0)
          /\ resource_stats.cpu_count > 0 =>
                averages'[1].cpu = Some(resource_stats.cpu_sum \div resource_stats.cpu_count)

\* C30: the accumulator changes only in a statement of the monitor thread,
\* one field at a time in the order of lines 84-91, and a sample whose
\* readings raise stops the thread with the accumulator as it was; so the
\* four counts are equal whenever the thread is not inside those
\* statements. The averages are read only after main has returned, with
\* every worker process ended, and an average over no sample is 0 and
\* raises no division by zero.
C30_ResourceAccumulator == [](AccumulatorInvariant) /\ [][AccumulatorStep]_vars

\* the averages were read over two samples while the documents were
\* processed, the thread having stopped at a failing third sample
C30_Witness ==
    /\ opc = "done"
    /\ averages # <<>>
    /\ mon_pc = "stopped"
    /\ resource_stats.gpu_mem_count = 2
    /\ resource_stats.cpu_sum = 50
    /\ averages[1].cpu = Some(25)
    /\ Len(gpus) = 2
    /\ averages[1].gpu_util = Some(30)

\* main returned without starting the monitor and the averages are 0
C30_WitnessNoSample ==
    /\ opc = "returned"
    /\ mon_pc = "unstarted"
    /\ averages = <<[cpu |-> Some(0), ram |-> Some(0), gpu_util |-> Some(0),
                     gpu_mem |-> Some(0)]>>

\* the thread is inside the updates of a sample while a worker is at a document
C30_WitnessMidSample ==
    /\ mon_pc = "ram_count"
    /\ resource_stats.cpu_count = 1
    /\ resource_stats.ram_count = 0
    /\ \E w \in Workers : wpc[w] = "run"

=============================================================================
